---------------------------- MODULE Spec2Model ----------------------------
(***************************************************************************)
(* Model of the rpov ray tracer (src/rpov/src): the recursive shader of    *)
(* world.rs with its thread-local recursion-depth counter, the shape and   *)
(* intersection protocol, and the refractive-index walk of                 *)
(* prepare_computations.                                                   *)
(*                                                                         *)
(* Float values are modelled in fixed point: the integer ONE stands for    *)
(* 1.0, so 0.0015 (EPSILON) is 60 and 0.25 is 10000.  Products and quotients  *)
(* are rounded to the nearest representable value, as float arithmetic     *)
(* rounds.  Option<T> is a sequence of length 0 (None) or 1 (Some).  A     *)
(* shape reference (&dyn Shape) is the pair of the collection and the      *)
(* index at which the World stores the shape, i.e. its address.            *)
(***************************************************************************)
EXTENDS Integers, Sequences, FiniteSets, TLC

VARIABLES
    RECURSION_DEPTH,  \* world.rs:50  one Cell<u32> per thread
    stack,            \* per thread: the active color_at frames, outermost first
    status,           \* per thread: "idle", "running", "done", "panicked"
    result,           \* per thread: Option<Color> returned by the last top-level color_at
    shadowed,         \* per thread: Option of the last top-level is_shadowed: its point and its bool
    world,            \* per thread: the World the thread renders
    calls,            \* per thread: number of top-level color_at calls started
    trace,            \* per thread: bookkeeping of the current top-level call
    steps,            \* per thread: steps taken inside the current top-level call
    shade_log,        \* per thread: Option of the last completed shade_hit
    fin,              \* inputs of the pure operations (world, ray, list, target)
    fout              \* outputs of the pure operations

vars == <<RECURSION_DEPTH, stack, status, result, shadowed, world, calls, trace, steps, shade_log, fin, fout>>

tracer_vars == <<RECURSION_DEPTH, stack, status, result, shadowed, world, calls, trace, steps, shade_log>>

fn_vars == <<fin, fout>>

-----------------------------------------------------------------------------
(* floats.rs : fixed-point Float                                           *)

ONE == 40000

EPSILON == 60

\* ONE = Digit * Digit; quotients and square roots are developed digit by digit
\* so that no intermediate value leaves the 32-bit integers of the checker
Digit == 200

None == <<>>

Some(x) == <<x>>

Abs(a) == IF a < 0 THEN -a ELSE a

Sgn(a) == IF a < 0 THEN -1 ELSE 1

\* floor(a * b / ONE) for a, b >= 0
MulFloor(a, b) ==
    (a \div ONE) * (b \div ONE) * ONE + (a \div ONE) * (b % ONE) + (a % ONE) * (b \div ONE)
    + ((a % ONE) * (b % ONE)) \div ONE

\* (a * b) mod ONE for a, b >= 0
MulRem(a, b) == ((a % ONE) * (b % ONE)) % ONE

\* a * b on Float, rounded to nearest
FMul(a, b) ==
    Sgn(a) * Sgn(b) * (MulFloor(Abs(a), Abs(b)) + (IF 2 * MulRem(Abs(a), Abs(b)) >= ONE THEN 1 ELSE 0))

\* ONE as a product of small radices: a quotient is developed one small digit
\* at a time, so that a large divisor does not leave the 32-bit integers either
Radix == <<10, 10, 10, 10, 4>>

RECURSIVE DivDigits(_, _, _, _)
\* the quotient q and the remainder r of n by d, developed by the digits from k on
\* and rounded to nearest
DivDigits(q, r, d, k) ==
    IF k > Len(Radix) THEN q + (IF 2 * r >= d THEN 1 ELSE 0)
    ELSE DivDigits(q * Radix[k] + (r * Radix[k]) \div d, (r * Radix[k]) % d, d, k + 1)

\* a / b on Float (b # 0), rounded to nearest
FDiv(a, b) == Sgn(a) * Sgn(b) * DivDigits(Abs(a) \div Abs(b), Abs(a) % Abs(b), Abs(b), 1)

RECURSIVE IsqrtBetween(_, _, _)
\* the largest s in lo..hi with s * s <= n
IsqrtBetween(n, lo, hi) ==
    IF lo >= hi THEN lo
    ELSE LET mid == (lo + hi + 1) \div 2
         IN  IF mid * mid <= n THEN IsqrtBetween(n, mid, hi)
                               ELSE IsqrtBetween(n, lo, mid - 1)

RECURSIVE FSqrtBetween(_, _, _)
\* the largest s in lo..hi with s * s <= a * ONE
FSqrtBetween(a, lo, hi) ==
    IF lo >= hi THEN lo
    ELSE LET mid == (lo + hi + 1) \div 2
         IN  IF MulFloor(mid, mid) < a \/ (MulFloor(mid, mid) = a /\ MulRem(mid, mid) = 0)
             THEN FSqrtBetween(a, mid, hi)
             ELSE FSqrtBetween(a, lo, mid - 1)

\* the square root of a * ONE, given s0 = the integer square root of a
FSqrtFrom(a, s0) == FSqrtBetween(a, s0 * Digit, s0 * Digit + Digit)

\* a.sqrt() on Float (a >= 0)
FSqrt(a) == FSqrtFrom(a, IsqrtBetween(a, 0, 46340))

FSquare(a) == FMul(a, a)

RECURSIVE powi(_, _)
\* a.powi(n) and a.powf(n) for an integral n >= 0, by squaring
powi(a, n) ==
    IF n = 0 THEN ONE
    ELSE IF n % 2 = 1 THEN FMul(a, powi(a, n - 1))
    ELSE FSquare(powi(a, n \div 2))

-----------------------------------------------------------------------------
(* tuples.rs                                                               *)

W_POINT == ONE

W_VECTOR == 0

make_tuple(x, y, z, w) == [x |-> x, y |-> y, z |-> z, w |-> w]

point(x, y, z) == make_tuple(x, y, z, W_POINT)

vector(x, y, z) == make_tuple(x, y, z, W_VECTOR)

is_point(a) == a.w = W_POINT

is_vector(a) == a.w = W_VECTOR

tuple_add(a, b) == [x |-> a.x + b.x, y |-> a.y + b.y, z |-> a.z + b.z, w |-> a.w + b.w]

\* w of the left operand kept
tuple_sub_keeps_w(a, b) == [x |-> a.x - b.x, y |-> a.y - b.y, z |-> a.z - b.z, w |-> a.w]

tuple_sub(a, b) == [x |-> a.x - b.x, y |-> a.y - b.y, z |-> a.z - b.z, w |-> a.w - b.w]

tuple_mul(a, s) == [x |-> FMul(a.x, s), y |-> FMul(a.y, s), z |-> FMul(a.z, s), w |-> FMul(a.w, s)]

tuple_neg(a) == [x |-> -a.x, y |-> -a.y, z |-> -a.z, w |-> -a.w]

dot(a, b) == FMul(a.x, b.x) + FMul(a.y, b.y) + FMul(a.z, b.z) + FMul(a.w, b.w)

magnitude(a) == FSqrt(FMul(a.x, a.x) + FMul(a.y, a.y) + FMul(a.z, a.z) + FMul(a.w, a.w))

\* normalize panics ("Cannot normalize a zero vector") exactly when this holds
normalize_panics(a) == magnitude(a) = 0

tuple_div(a, s) == [x |-> FDiv(a.x, s), y |-> FDiv(a.y, s), z |-> FDiv(a.z, s), w |-> FDiv(a.w, s)]

normalize(a) == tuple_div(a, magnitude(a))

\* only the left operand is looked at
cross_panics_left_only(a, other) == ~is_vector(a)

\* cross panics ("Cross product is only defined for vectors") exactly when this holds
cross_panics(a, other) == ~(is_vector(a) /\ is_vector(other))

cross(a, other) ==
    vector(FMul(a.y, other.z) - FMul(a.z, other.y),
           FMul(a.z, other.x) - FMul(a.x, other.z),
           FMul(a.x, other.y) - FMul(a.y, other.x))

\* reflect panics ("Reflection is only defined for vectors") exactly when this holds
reflect_panics(a, normal) == ~(is_vector(a) /\ is_vector(normal))

\* the vector that reflect builds from dot_product
reflect_with(a, normal, dot_product) ==
    vector(a.x - FMul(FMul(2 * ONE, dot_product), normal.x),
           a.y - FMul(FMul(2 * ONE, dot_product), normal.y),
           a.z - FMul(FMul(2 * ONE, dot_product), normal.z))

reflect(a, normal) == reflect_with(a, normal, dot(a, normal))

-----------------------------------------------------------------------------
(* colors.rs                                                               *)

Color(r, g, b) == [red |-> r, green |-> g, blue |-> b]

COLOR_BLACK == Color(0, 0, 0)

color_add(a, b) == [red |-> a.red + b.red, green |-> a.green + b.green, blue |-> a.blue + b.blue]

color_scale(a, s) == [red |-> FMul(a.red, s), green |-> FMul(a.green, s), blue |-> FMul(a.blue, s)]

color_mul(a, b) == [red |-> FMul(a.red, b.red), green |-> FMul(a.green, b.green), blue |-> FMul(a.blue, b.blue)]

-----------------------------------------------------------------------------
(* matrices.rs, transformations.rs : a Matrix<Float, N> is a sequence of   *)
(* N rows of N elements                                                    *)

identity == << <<ONE, 0, 0, 0>>, <<0, ONE, 0, 0>>, <<0, 0, ONE, 0>>, <<0, 0, 0, ONE>> >>

translation(x, y, z) == << <<ONE, 0, 0, x>>, <<0, ONE, 0, y>>, <<0, 0, ONE, z>>, <<0, 0, 0, ONE>> >>

scaling(x, y, z) == << <<x, 0, 0, 0>>, <<0, y, 0, 0>>, <<0, 0, z, 0>>, <<0, 0, 0, ONE>> >>

\* row i of m times the tuple a
multiply_row(m, i, a) ==
    FMul(m[i][1], a.x) + FMul(m[i][2], a.y) + FMul(m[i][3], a.z) + FMul(m[i][4], a.w)

multiply_tuple(m, a) ==
    [x |-> multiply_row(m, 1, a), y |-> multiply_row(m, 2, a),
     z |-> multiply_row(m, 3, a), w |-> multiply_row(m, 4, a)]

multiply_matrix(m, o) ==
    [i \in 1..4 |-> [j \in 1..4 |->
        FMul(m[i][1], o[1][j]) + FMul(m[i][2], o[2][j]) + FMul(m[i][3], o[3][j]) + FMul(m[i][4], o[4][j])]]

transpose(m) == [j \in 1..Len(m) |-> [i \in 1..Len(m) |-> m[i][j]]]

submatrix(m, drop_row, drop_col) ==
    [i \in 1..(Len(m) - 1) |-> [j \in 1..(Len(m) - 1) |->
        m[IF i < drop_row THEN i ELSE i + 1][IF j < drop_col THEN j ELSE j + 1]]]

RECURSIVE determinant(_)

minor(m, r, c) == determinant(submatrix(m, r, c))

\* rows and columns are numbered from 1 here, from 0 in the source
cofactor(m, r, c) == IF (r + c) % 2 = 0 THEN minor(m, r, c) ELSE -minor(m, r, c)

RECURSIVE expand_first_row(_, _)
\* the terms of the first row from column j on: self[(0, j)] * self.cofactor(0, j)
expand_first_row(m, j) ==
    IF j > Len(m) THEN 0
    ELSE FMul(m[1][j], cofactor(m, 1, j)) + expand_first_row(m, j + 1)

determinant(m) ==
    IF Len(m) = 2
    THEN FMul(m[1][1], m[2][2]) - FMul(m[1][2], m[2][1])
    ELSE expand_first_row(m, 1)

is_invertible(m) == determinant(m) # 0

\* inverse panics ("Matrix is not invertible") exactly when this holds
inverse_panics(m) == ~is_invertible(m)

\* the cofactors over the determinant, not transposed
inverse_untransposed(m, det) ==
    [row \in 1..Len(m) |-> [col \in 1..Len(m) |-> FDiv(cofactor(m, row, col), det)]]

\* the transposed cofactors over the determinant det
inverse_with(m, det) ==
    [col \in 1..Len(m) |-> [row \in 1..Len(m) |-> FDiv(cofactor(m, row, col), det)]]

inverse(m) == inverse_with(m, determinant(m))

-----------------------------------------------------------------------------
(* rays.rs                                                                 *)

Ray(origin, direction) == [origin |-> origin, direction |-> direction]

position(r, t) == tuple_add(r.origin, tuple_mul(r.direction, t))

transform(r, m) == [origin |-> multiply_tuple(m, r.origin), direction |-> multiply_tuple(m, r.direction)]

-----------------------------------------------------------------------------
(* materials.rs, spheres.rs, planes.rs : scene description data            *)

Material(color, ambient, diffuse, specular, shininess, reflective, transparency, refractive_index) ==
    [color |-> color, ambient |-> ambient, diffuse |-> diffuse, specular |-> specular,
     shininess |-> shininess, reflective |-> reflective, transparency |-> transparency,
     refractive_index |-> refractive_index]

Sphere(id, transform_, material_) == [id |-> id, transform |-> transform_, material |-> material_]

Plane(transform_, material_) == [transform |-> transform_, material |-> material_]

point_light(position_, intensity) == [position |-> position_, intensity |-> intensity]

World(objects, light, planes) == [objects |-> objects, light |-> light, planes |-> planes]

\* &dyn Shape : the address of the shape inside the World's storage
SphereRef(i) == [kind |-> "sphere", idx |-> i]

PlaneRef(i) == [kind |-> "plane", idx |-> i]

\* dereference of a &dyn Shape
Deref(w, ref) == IF ref.kind = "sphere" THEN w.objects[ref.idx] ELSE w.planes[ref.idx]

material(w, ref) == Deref(w, ref).material

Intersection(t, object) == [t |-> t, object |-> object]

-----------------------------------------------------------------------------
(* shapes.rs, spheres.rs, planes.rs : the shape protocol                   *)

transform_inverse(w, ref) == inverse(Deref(w, ref).transform)

\* the larger root first
Sphere_roots_descending(self, t1, t2) ==
    IF t1 > t2 THEN <<Intersection(t1, self), Intersection(t2, self)>>
    ELSE <<Intersection(t2, self), Intersection(t1, self)>>

\* the vec! that local_intersect returns for the roots t1 and t2
Sphere_roots(self, t1, t2) ==
    IF t1 > t2 THEN <<Intersection(t2, self), Intersection(t1, self)>>
    ELSE <<Intersection(t1, self), Intersection(t2, self)>>

\* local_intersect from the square root of the discriminant on
Sphere_from_sqrt(self, a, b, root) ==
    Sphere_roots(self, FDiv(-b - root, FMul(2 * ONE, a)), FDiv(-b + root, FMul(2 * ONE, a)))

\* local_intersect from the discriminant on
Sphere_from_discriminant(self, a, b, discriminant) ==
    IF discriminant < 0 THEN <<>> ELSE Sphere_from_sqrt(self, a, b, FSqrt(discriminant))

\* local_intersect from the coefficients a, b, c on
Sphere_from_coefficients(self, a, b, c) ==
    Sphere_from_discriminant(self, a, b, powi(b, 2) - FMul(FMul(4 * ONE, a), c))

\* local_intersect from sphere_to_ray on
Sphere_from_origin(self, local_ray, sphere_to_ray) ==
    Sphere_from_coefficients(self,
        dot(local_ray.direction, local_ray.direction),
        FMul(2 * ONE, dot(local_ray.direction, sphere_to_ray)),
        dot(sphere_to_ray, sphere_to_ray) - ONE)

Sphere_local_intersect(self, local_ray) ==
    Sphere_from_origin(self, local_ray, tuple_sub(local_ray.origin, point(0, 0, 0)))

Plane_local_intersect(self, local_ray) == <<>>

local_intersect(self, local_ray) ==
    IF self.kind = "sphere" THEN Sphere_local_intersect(self, local_ray)
    ELSE Plane_local_intersect(self, local_ray)

Sphere_local_normal_at(local_point) == tuple_sub(local_point, point(0, 0, 0))

Plane_local_normal_at(local_point) == vector(0, ONE, 0)

local_normal_at(self, local_point) ==
    IF self.kind = "sphere" THEN Sphere_local_normal_at(local_point)
    ELSE Plane_local_normal_at(local_point)

\* ShapeFunctions::intersect
intersect(w, self, ray) == local_intersect(self, transform(ray, transform_inverse(w, self)))

\* the world-space normal before it is normalized
world_normal_with(self, ti, world_point) ==
    [multiply_tuple(transpose(ti), local_normal_at(self, multiply_tuple(ti, world_point)))
        EXCEPT !.w = 0]

world_normal(w, self, world_point) == world_normal_with(self, transform_inverse(w, self), world_point)

normal_at_panics(w, self, world_point) == normalize_panics(world_normal(w, self, world_point))

\* ShapeFunctions::normal_at
normal_at(w, self, world_point) == normalize(world_normal(w, self, world_point))

-----------------------------------------------------------------------------
(* intersections.rs                                                        *)

RECURSIVE min_by_t_positive(_, _, _)
\* `i.t > 0.0` in the place of `i.t >= 0.0`
min_by_t_positive(xs, k, best) ==
    IF k > Len(xs) THEN best
    ELSE IF xs[k].t > 0 /\ (best = None \/ xs[k].t < best[1].t)
         THEN min_by_t_positive(xs, k + 1, Some(xs[k]))
         ELSE min_by_t_positive(xs, k + 1, best)

RECURSIVE min_by_t_last(_, _, _)
\* the last minimal element wins, as with Iterator::max_by
min_by_t_last(xs, k, best) ==
    IF k > Len(xs) THEN best
    ELSE IF xs[k].t >= 0 /\ (best = None \/ xs[k].t <= best[1].t)
         THEN min_by_t_last(xs, k + 1, Some(xs[k]))
         ELSE min_by_t_last(xs, k + 1, best)

RECURSIVE min_by_t(_, _, _)
\* Iterator::min_by over the elements with t >= 0 : the first minimal one wins
min_by_t(xs, k, best) ==
    IF k > Len(xs) THEN best
    ELSE IF xs[k].t >= 0 /\ (best = None \/ xs[k].t < best[1].t)
         THEN min_by_t(xs, k + 1, Some(xs[k]))
         ELSE min_by_t(xs, k + 1, best)

hit(intersections) == min_by_t(intersections, 1, None)

-----------------------------------------------------------------------------
(* world.rs : World::intersect                                             *)

RECURSIVE insert_by_t_descending(_, _)
\* the comparison of the sort the other way round
insert_by_t_descending(sorted, x) ==
    IF sorted = <<>> THEN <<x>>
    ELSE IF sorted[Len(sorted)].t >= x.t THEN Append(sorted, x)
    ELSE Append(insert_by_t_descending(SubSeq(sorted, 1, Len(sorted) - 1), x), sorted[Len(sorted)])

RECURSIVE insert_by_t(_, _)
\* x goes after every element whose t is not greater (the sort is stable)
insert_by_t(sorted, x) ==
    IF sorted = <<>> THEN <<x>>
    ELSE IF sorted[Len(sorted)].t <= x.t THEN Append(sorted, x)
    ELSE Append(insert_by_t(SubSeq(sorted, 1, Len(sorted) - 1), x), sorted[Len(sorted)])

RECURSIVE sort_by_t(_, _)
\* Vec::sort_by(|a, b| a.t.partial_cmp(&b.t).unwrap())
sort_by_t(xs, k) == IF k = 0 THEN <<>> ELSE insert_by_t(sort_by_t(xs, k - 1), xs[k])

RECURSIVE append_all(_, _, _, _, _)
\* for shape in collection { all.append(&mut shape.intersect(r)) }
append_all(w, kind, n, r, k) ==
    IF k > n THEN <<>>
    ELSE intersect(w, [kind |-> kind, idx |-> k], r) \o append_all(w, kind, n, r, k + 1)

sort_all(all_intersections) == sort_by_t(all_intersections, Len(all_intersections))

World_intersect(w, r) ==
    sort_all(append_all(w, "sphere", Len(w.objects), r, 1) \o append_all(w, "plane", Len(w.planes), r, 1))

-----------------------------------------------------------------------------
(* world.rs : Intersection::prepare_computations                           *)

\* the shapes compared by what they are, not by where they are: what a
\* comparison by value gives for two shapes that were built alike
is_same_shape_by_kind(a, b) == a.kind = b.kind

is_same_shape(a, b) == a = b

\* position of the first element of containers that is the same shape, 0 if none
RECURSIVE find_same(_, _, _)
find_same(containers, object, j) ==
    IF j > Len(containers) THEN 0
    ELSE IF is_same_shape(containers[j], object) THEN j
    ELSE find_same(containers, object, j + 1)

\* nothing is removed
remove_at_nothing(containers, j) == containers

\* containers.swap_remove(j): the last element takes the place of the removed one
remove_at_swap(containers, j) ==
    [i \in 1..(Len(containers) - 1) |-> IF i = j THEN containers[Len(containers)] ELSE containers[i]]

\* containers.remove(j)
remove_at(containers, j) == SubSeq(containers, 1, j - 1) \o SubSeq(containers, j + 1, Len(containers))

\* the removal left out: every intersection pushes its shape
toggle_push(containers, object) == Append(containers, object)

\* the toggle of one loop iteration: remove the shape if found, else push it
toggle(containers, object) ==
    IF find_same(containers, object, 1) # 0
    THEN remove_at(containers, find_same(containers, object, 1))
    ELSE Append(containers, object)

\* refractive index of containers.last(), 1.0 when containers is empty
last_index(w, containers) ==
    IF containers = <<>> THEN ONE
    ELSE material(w, containers[Len(containers)]).refractive_index

RECURSIVE refractive_walk(_, _, _, _, _, _)

\* the rest of one loop iteration, once the shape of xs[k] is toggled
refractive_walk_toggled(w, self, xs, k, toggled, acc) ==
    IF xs[k].t = self.t
    THEN [n1 |-> acc.n1, n2 |-> last_index(w, toggled), containers |-> toggled]
    ELSE refractive_walk(w, self, xs, k + 1, toggled, acc)

\* the for loop of prepare_computations from element k on; acc carries n1, n2
\* and the containers (kept for inspection)
refractive_walk(w, self, xs, k, containers, acc) ==
    IF k > Len(xs) THEN [acc EXCEPT !.containers = containers]
    ELSE refractive_walk_toggled(w, self, xs, k, toggle(containers, xs[k].object),
             [acc EXCEPT !.n1 = IF xs[k].t = self.t THEN last_index(w, containers) ELSE @])

prepare_computations_panics(w, self, ray) ==
    normal_at_panics(w, self.object, position(ray, self.t))

\* Option::unwrap_or_default
unwrap_or_default(xs_or_none) == IF xs_or_none = None THEN <<>> ELSE xs_or_none[1]

\* the Computations built from the values of the let bindings
Computations(self, point_, eyev, normalv, inside, reflectv, offset, walk) ==
    [t |-> self.t, object |-> self.object, point |-> point_, eyev |-> eyev,
     normalv |-> normalv, inside |-> inside, over_point |-> tuple_add(point_, offset),
     reflectv |-> reflectv, n1 |-> walk.n1, n2 |-> walk.n2,
     under_point |-> tuple_sub(point_, offset)]

\* n1 and n2 start from the index of the shape that was hit
prepare_with_normalv_own_index(w, self, ray, xs_or_none, point_, inside, normalv) ==
    Computations(self, point_, tuple_neg(ray.direction), normalv, inside,
                 reflect(ray.direction, normalv), tuple_mul(normalv, EPSILON),
                 refractive_walk(w, self, unwrap_or_default(xs_or_none), 1, <<>>,
                                 [n1 |-> material(w, self.object).refractive_index,
                                  n2 |-> material(w, self.object).refractive_index,
                                  containers |-> <<>>]))

\* prepare_computations once normalv has its final direction
prepare_with_normalv(w, self, ray, xs_or_none, point_, inside, normalv) ==
    Computations(self, point_, tuple_neg(ray.direction), normalv, inside,
                 reflect(ray.direction, normalv), tuple_mul(normalv, EPSILON),
                 refractive_walk(w, self, unwrap_or_default(xs_or_none), 1, <<>>,
                                 [n1 |-> ONE, n2 |-> ONE, containers |-> <<>>]))

\* the normal is left as it is
prepare_with_inside_unflipped(w, self, ray, xs_or_none, point_, normalv, inside) ==
    prepare_with_normalv(w, self, ray, xs_or_none, point_, inside, normalv)

\* `if inside { normalv = -normalv; }`
prepare_with_inside(w, self, ray, xs_or_none, point_, normalv, inside) ==
    prepare_with_normalv(w, self, ray, xs_or_none, point_, inside,
                         IF inside THEN tuple_neg(normalv) ELSE normalv)

\* prepare_computations from `let mut normalv` on
prepare_with_normal_at(w, self, ray, xs_or_none, point_, normalv) ==
    prepare_with_inside(w, self, ray, xs_or_none, point_, normalv,
                        dot(normalv, tuple_neg(ray.direction)) < 0)

\* prepare_computations from `let point` on
prepare_at_point(w, self, ray, xs_or_none, point_) ==
    prepare_with_normal_at(w, self, ray, xs_or_none, point_, normal_at(w, self.object, point_))

prepare_computations(w, self, ray, xs_or_none) ==
    prepare_at_point(w, self, ray, xs_or_none, position(ray, self.t))

-----------------------------------------------------------------------------
(* lighting.rs                                                             *)

\* the Phong sum of lighting() for a surface that is not in shadow
\* the specular contribution for reflect_dot_eye
phong_specular(m, light, reflect_dot_eye) ==
    IF reflect_dot_eye <= 0 THEN COLOR_BLACK
    ELSE color_scale(color_scale(light.intensity, m.specular),
                     powi(reflect_dot_eye, m.shininess \div ONE))

\* (diffuse, specular) of a surface that faces the light
phong_lit(m, light, effective_color, lightv, eyev, normalv, light_dot_normal) ==
    color_add(color_scale(color_scale(effective_color, m.diffuse), light_dot_normal),
              phong_specular(m, light, dot(reflect(tuple_neg(lightv), normalv), eyev)))

\* ambient + diffuse + specular for light_dot_normal
phong_sum(m, light, effective_color, lightv, eyev, normalv, light_dot_normal) ==
    color_add(color_scale(effective_color, m.ambient),
              IF light_dot_normal < 0 THEN COLOR_BLACK
              ELSE phong_lit(m, light, effective_color, lightv, eyev, normalv, light_dot_normal))

\* lighting once effective_color and lightv are known
phong_with(m, light, effective_color, lightv, eyev, normalv) ==
    phong_sum(m, light, effective_color, lightv, eyev, normalv, dot(lightv, normalv))

phong(m, light, position_, eyev, normalv) ==
    phong_with(m, light, color_mul(m.color, light.intensity),
               normalize(tuple_sub(light.position, position_)), eyev, normalv)

\* in_shadow ignored
lighting_unshadowed(m, object, light, point_, eyev, normalv, in_shadow) ==
    phong(m, light, point_, eyev, normalv)

\* lighting(material, object, light, point, eyev, normalv, in_shadow); the
\* materials of the scenes have no pattern
lighting(m, object, light, point_, eyev, normalv, in_shadow) ==
    IF in_shadow THEN color_scale(color_mul(m.color, light.intensity), m.ambient)
    ELSE phong(m, light, point_, eyev, normalv)

\* r0 + (1 - r0) * (1 - cos)^5
schlick_r0(r0, cos_) == r0 + FMul(ONE - r0, powi(ONE - cos_, 5))

\* schlick once cos and sin2_t are known
schlick_with(comps, cos_i, sin2_t) ==
    IF comps.n1 > comps.n2 /\ sin2_t > ONE THEN ONE
    ELSE schlick_r0(powi(FDiv(comps.n1 - comps.n2, comps.n1 + comps.n2), 2),
                    IF comps.n1 > comps.n2 THEN FSqrt(ONE - sin2_t) ELSE cos_i)

\* sin2_t = n^2 * (1 - cos^2) for n = n1 / n2
sin2_t_of(n_ratio, cos_i) == FMul(powi(n_ratio, 2), ONE - powi(cos_i, 2))

schlick_cos(comps, cos_i) == schlick_with(comps, cos_i, sin2_t_of(FDiv(comps.n1, comps.n2), cos_i))

schlick(comps) == schlick_cos(comps, dot(comps.eyev, comps.normalv))

-----------------------------------------------------------------------------
(* world.rs : the shader                                                   *)

MAX_RECURSION_DEPTH == 5

\* a light at the origin in the place of a missing one
light_or_default(w) ==
    IF w.light = None THEN Some(point_light(point(0, 0, 0), Color(ONE, ONE, ONE))) ELSE w.light

\* `self.light.as_ref()`, on which shade_hit and is_shadowed call expect(..)
light_as_ref(w) == w.light

\* is_shadowed panics: no light (expect), or the point is the light position
is_shadowed_panics(w, point_) ==
    \/ light_as_ref(w) = None
    \/ normalize_panics(tuple_sub(light_as_ref(w)[1].position, point_))

\* any hit shadows the point, however far away
is_shadowed_hit_any(h, distance) == h # None

\* `h.is_some() && h.unwrap().t < distance`
is_shadowed_hit(h, distance) == h # None /\ h[1].t < distance

\* is_shadowed from `let v` on
is_shadowed_along(w, point_, v) ==
    is_shadowed_hit(hit(World_intersect(w, Ray(point_, normalize(v)))), magnitude(v))

is_shadowed(w, point_) == is_shadowed_along(w, point_, tuple_sub(light_as_ref(w)[1].position, point_))

\* shade_hit panics before it computes the surface color
shade_hit_panics(w, comps) ==
    \/ light_as_ref(w) = None
    \/ is_shadowed_panics(w, comps.over_point)

\* the first statements of shade_hit: the surface color
shade_hit_surface(w, comps) ==
    lighting(material(w, comps.object), comps.object, light_as_ref(w)[1], comps.over_point,
             comps.eyev, comps.normalv, is_shadowed(w, comps.over_point))

\* surface + reflected * reflectance + refracted * (1.0 - reflectance)
shade_hit_weighted(surface, reflected, refracted, reflectance) ==
    color_add(color_add(surface, color_scale(reflected, reflectance)),
              color_scale(refracted, ONE - reflectance))

\* `||` in the place of `&&`
shade_hit_blend_either(w, comps, surface, reflected, refracted) ==
    IF material(w, comps.object).reflective > 0 \/ material(w, comps.object).transparency > 0
    THEN shade_hit_weighted(surface, reflected, refracted, schlick(comps))
    ELSE color_add(color_add(surface, reflected), refracted)

\* the last statements of shade_hit: the blend of the three colors
shade_hit_blend(w, comps, surface, reflected, refracted) ==
    IF material(w, comps.object).reflective > 0 /\ material(w, comps.object).transparency > 0
    THEN shade_hit_weighted(surface, reflected, refracted, schlick(comps))
    ELSE color_add(color_add(surface, reflected), refracted)

\* only a reflective of exactly 0 counts as not reflective
reflected_color_is_black_at_zero(w, comps) == material(w, comps.object).reflective = 0

\* reflected_color returns black without a ray
reflected_color_is_black(w, comps) == material(w, comps.object).reflective < EPSILON

reflect_ray(comps) == Ray(comps.over_point, comps.reflectv)

\* sin2_t of refracted_color
refracted_sin2_t(comps) == sin2_t_of(FDiv(comps.n1, comps.n2), dot(comps.eyev, comps.normalv))

\* the test of the transparency left out
refracted_color_is_black_when_total(w, comps) == refracted_sin2_t(comps) > ONE

\* refracted_color returns black without a ray
refracted_color_is_black(w, comps) ==
    \/ material(w, comps.object).transparency = 0
    \/ refracted_sin2_t(comps) > ONE

\* the refracted ray once n_ratio, cos_i and sin2_t are known
refract_ray_with(comps, n_ratio, cos_i, sin2_t) ==
    Ray(comps.under_point,
        tuple_sub(tuple_mul(comps.normalv, FMul(n_ratio, cos_i) - FSqrt(ONE - sin2_t)),
                  tuple_mul(comps.eyev, n_ratio)))

refract_ray_along(comps, n_ratio, cos_i) ==
    refract_ray_with(comps, n_ratio, cos_i, sin2_t_of(n_ratio, cos_i))

refract_ray(comps) ==
    refract_ray_along(comps, FDiv(comps.n1, comps.n2), dot(comps.eyev, comps.normalv))

-----------------------------------------------------------------------------
(* Scenes and rays that are rendered                                       *)

\* Material::new()
Material_new == Material(Color(ONE, ONE, ONE), ONE \div 10, ((9 * ONE) \div 10), ((9 * ONE) \div 10), 200 * ONE, 0, 0, ONE)

mirror == [Material_new EXCEPT !.reflective = ONE]

glass == [Material_new EXCEPT !.transparency = ONE, !.refractive_index = ((3 * ONE) \div 2)]

tinted_glass == [glass EXCEPT !.reflective = ONE \div 2, !.color = Color(ONE, 0, 0)]

hazy == [Material_new EXCEPT !.reflective = EPSILON - 1, !.transparency = ONE \div 2]

white_light(x, y, z) == Some(point_light(point(x, y, z), Color(ONE, ONE, ONE)))

ball(id, radius, material_) == Sphere(id, scaling(radius, radius, radius), material_)

\* a ray up or down the y axis hits every shape at a right angle
Scenes == <<
    \* 1: inside a hollow mirror ball, the light in its centre
    World(<<ball(0, 2 * ONE, mirror)>>, white_light(0, 0, 0), <<>>),
    \* 2: the mirror ball without a light (World::new() and pushes)
    World(<<ball(0, 2 * ONE, mirror)>>, None, <<>>),
    \* 3: the light exactly at the over_point of the lowest point of the ball
    World(<<ball(0, 2 * ONE, mirror)>>, white_light(0, EPSILON - 2 * ONE, 0), <<>>),
    \* 4: a reflective glass ball inside an opaque shell, lit from in between
    World(<<ball(0, ONE, tinted_glass), ball(1, 4 * ONE, Material_new)>>,
          white_light(0, 3 * ONE, 0), <<>>),
    \* 5: three nested glass balls of indices 1.5, 2.0, 2.5, the outer one reflective
    World(<<ball(0, 4 * ONE, tinted_glass),
            ball(1, 2 * ONE, [glass EXCEPT !.refractive_index = 2 * ONE]),
            ball(2, ONE, [glass EXCEPT !.refractive_index = ((5 * ONE) \div 2)])>>,
          white_light(0, 6 * ONE, 0), <<>>),
    \* 6: an opaque ball under a transparent, barely reflective one, lit from the side
    World(<<ball(0, ONE, Material_new),
            Sphere(1, translation(0, 3 * ONE, 0), hazy)>>,
          white_light(-5 * ONE, 5 * ONE, -5 * ONE), <<>>),
    \* 7: two mirror planes facing each other, the light between them
    World(<<>>, white_light(0, 0, 0),
          <<Plane(translation(0, -ONE, 0), mirror), Plane(translation(0, ONE, 0), mirror)>>),
    \* 8: World::new()
    World(<<>>, None, <<>>),
    \* 9: five nested balls of reflective glass: for five hits in a row the
    \* reflected and the refracted ray both meet a ball again
    World(<<ball(0, ONE, tinted_glass), ball(1, 2 * ONE, tinted_glass),
            ball(2, 3 * ONE, tinted_glass), ball(3, 4 * ONE, tinted_glass),
            ball(4, 6 * ONE, tinted_glass)>>,
          white_light(-10 * ONE, 10 * ONE, -10 * ONE), <<>>)
>>

\* sqrt(2) / 2
HalfSqrt2 == FSqrt(2 * ONE) \div 2

Rays == <<
    Ray(point(0, ONE \div 2, 0), vector(0, ONE, 0)),
    Ray(point(0, 5 * ONE, 0), vector(0, -ONE, 0)),
    Ray(point(0, 5 * ONE, 0), vector(0, ONE, 0)),
    Ray(point(5 * ONE, 5 * ONE, 0), vector(0, -ONE, 0)),
    \* from inside the unit ball towards its surface, which it meets at 45 degrees
    Ray(point(0, 0, HalfSqrt2), vector(0, ONE, 0))
>>

-----------------------------------------------------------------------------
(* world.rs : World::color_at as a machine of call frames.  color_at calls *)
(* itself through shade_hit, reflected_color and refracted_color; a frame  *)
(* is one activation of color_at, and a step runs the code of the top      *)
(* frame up to the next call of color_at or to its return.                 *)

Threads == {1, 2}

MaxCalls == 2

\* a plain `static` instead of thread_local!: one Cell for every thread
DepthCell_static(t) == 1

\* the Cell that RECURSION_DEPTH.with(..) hands to thread t (thread_local!)
DepthCell(t) == t

\* `>` in the place of `>=`
color_at_bails_late(current_depth) == current_depth > MAX_RECURSION_DEPTH

\* `if current_depth >= MAX_RECURSION_DEPTH { return COLOR_BLACK; }`
color_at_bails(current_depth) == current_depth >= MAX_RECURSION_DEPTH

\* the increment left out
depth_on_entry_same(current_depth) == current_depth

\* `depth.set(current_depth + 1)`
depth_on_entry(current_depth) == current_depth + 1

\* the restore left out: the counter keeps the value set on entry
depth_on_return_kept(current_depth) == current_depth + 1

\* the counter is set one below the value read on entry
depth_on_return_below(current_depth) == IF current_depth > 0 THEN current_depth - 1 ELSE 0

\* `depth.set(current_depth)` before `color` is returned
depth_on_return(current_depth) == current_depth

Frame(ray, caller, entry_depth) ==
    [ray |-> ray, caller |-> caller, entry_depth |-> entry_depth, pc |-> "color_at",
     current_depth |-> 0, comps |-> None, surface |-> COLOR_BLACK,
     reflected |-> COLOR_BLACK, refracted |-> COLOR_BLACK]

Top(t) == stack[t][Len(stack[t])]

SetTop(t, frame) == [stack EXCEPT ![t] = [@ EXCEPT ![Len(@)] = frame]]

Push(t, frame, child) == [stack EXCEPT ![t] = Append([@ EXCEPT ![Len(@)] = frame], child)]

\* the frame of the caller once the callee returned color to it
Resume(w, parent, caller, color) ==
    IF caller = "reflected_color"
    THEN [parent EXCEPT !.reflected = color_scale(color, material(w, parent.comps[1].object).reflective),
                        !.pc = "refracted_color"]
    ELSE [parent EXCEPT !.refracted = color_scale(color, material(w, parent.comps[1].object).transparency),
                        !.pc = "blend"]

\* color_at returns color: to the thread (top-level call) or to its caller
Return(t, color) ==
    LET n == Len(stack[t])
    IN  IF n = 1
        THEN /\ stack' = [stack EXCEPT ![t] = <<>>]
             /\ status' = [status EXCEPT ![t] = "done"]
             /\ result' = [result EXCEPT ![t] = Some(color)]
        ELSE /\ stack' = [stack EXCEPT ![t] =
                    Append(SubSeq(@, 1, n - 2), Resume(world[t], @[n - 1], @[n].caller, color))]
             /\ UNCHANGED <<status, result>>

\* a panic unwinds every frame of the thread; nothing resets the counter
Panic(t) ==
    /\ stack' = [stack EXCEPT ![t] = <<>>]
    /\ status' = [status EXCEPT ![t] = "panicked"]
    /\ UNCHANGED result

\* a thread calls w.color_at(r) from outside of any color_at
StartColorAt(t, s, r) ==
    /\ status[t] # "running"
    /\ calls[t] < MaxCalls
    /\ calls' = [calls EXCEPT ![t] = @ + 1]
    /\ world' = [world EXCEPT ![t] = Scenes[s]]
    /\ stack' = [stack EXCEPT ![t] = <<Frame(Rays[r], "top", RECURSION_DEPTH[DepthCell(t)])>>]
    /\ status' = [status EXCEPT ![t] = "running"]
    /\ result' = [result EXCEPT ![t] = None]
    /\ shadowed' = [shadowed EXCEPT ![t] = None]
    /\ trace' = [trace EXCEPT ![t] = [base |-> RECURSION_DEPTH[DepthCell(t)], intersected |-> 0, bailed |-> 0, missed |-> 0]]
    /\ steps' = [steps EXCEPT ![t] = 0]
    /\ shade_log' = [shade_log EXCEPT ![t] = None]
    /\ UNCHANGED <<RECURSION_DEPTH, fn_vars>>

\* color_at enters shade_hit with comps: the surface color is computed and
\* reflected_color is next, unless shade_hit panics
ColorAtShadeHit(t, current_depth, comps) ==
    /\ RECURSION_DEPTH' = [RECURSION_DEPTH EXCEPT ![DepthCell(t)] = depth_on_entry(current_depth)]
    /\ IF shade_hit_panics(world[t], comps)
       THEN Panic(t)
       ELSE /\ stack' = SetTop(t, [Top(t) EXCEPT !.pc = "reflected_color",
                                                 !.current_depth = current_depth,
                                                 !.comps = Some(comps),
                                                 !.surface = shade_hit_surface(world[t], comps)])
            /\ UNCHANGED <<status, result>>

\* color_at from `if let Some(hit) = hit(&xs)` on
ColorAtHit(t, current_depth, xs, h) ==
    /\ trace' = [trace EXCEPT ![t].intersected = @ + 1,
                              ![t].missed = IF h = None THEN @ + 1 ELSE @]
    /\ IF h = None
       THEN /\ Return(t, COLOR_BLACK)
            /\ RECURSION_DEPTH' = [RECURSION_DEPTH EXCEPT ![DepthCell(t)] = depth_on_return(current_depth)]
       ELSE IF prepare_computations_panics(world[t], h[1], Top(t).ray)
       THEN /\ Panic(t)
            /\ RECURSION_DEPTH' = [RECURSION_DEPTH EXCEPT ![DepthCell(t)] = depth_on_entry(current_depth)]
       ELSE ColorAtShadeHit(t, current_depth,
                            prepare_computations(world[t], h[1], Top(t).ray, Some(xs)))

\* color_at from `let xs = self.intersect(r)` on
ColorAtIntersect(t, current_depth, xs) == ColorAtHit(t, current_depth, xs, hit(xs))

\* color_at from `let current_depth = depth.get()` on
ColorAtDepth(t, current_depth) ==
    IF color_at_bails(current_depth)
    THEN /\ Return(t, COLOR_BLACK)
         /\ trace' = [trace EXCEPT ![t].bailed = @ + 1]
         /\ UNCHANGED RECURSION_DEPTH
    ELSE ColorAtIntersect(t, current_depth, World_intersect(world[t], Top(t).ray))

\* color_at from its first statement to the call of reflected_color in shade_hit
ColorAtEnter(t) ==
    /\ status[t] = "running"
    /\ Top(t).pc = "color_at"
    /\ ColorAtDepth(t, RECURSION_DEPTH[DepthCell(t)])
    /\ UNCHANGED <<shadowed, world, calls, shade_log, fn_vars>>

\* reflected_color up to its call of color_at, or all of it when it returns black
ReflectedColor(t) ==
    /\ status[t] = "running"
    /\ Top(t).pc = "reflected_color"
    /\ IF reflected_color_is_black(world[t], Top(t).comps[1])
       THEN stack' = SetTop(t, [Top(t) EXCEPT !.reflected = COLOR_BLACK, !.pc = "refracted_color"])
       ELSE stack' = Push(t, [Top(t) EXCEPT !.pc = "in_reflected_color"],
                          Frame(reflect_ray(Top(t).comps[1]), "reflected_color",
                                RECURSION_DEPTH[DepthCell(t)]))
    /\ UNCHANGED <<RECURSION_DEPTH, status, result, shadowed, world, calls, trace, shade_log, fn_vars>>

\* refracted_color up to its call of color_at, or all of it when it returns black
RefractedColor(t) ==
    /\ status[t] = "running"
    /\ Top(t).pc = "refracted_color"
    /\ IF refracted_color_is_black(world[t], Top(t).comps[1])
       THEN stack' = SetTop(t, [Top(t) EXCEPT !.refracted = COLOR_BLACK, !.pc = "blend"])
       ELSE stack' = Push(t, [Top(t) EXCEPT !.pc = "in_refracted_color"],
                          Frame(refract_ray(Top(t).comps[1]), "refracted_color",
                                RECURSION_DEPTH[DepthCell(t)]))
    /\ UNCHANGED <<RECURSION_DEPTH, status, result, shadowed, world, calls, trace, shade_log, fn_vars>>

\* shade_hit returns color for the frame f, and so does the color_at that called it
ShadeHitColor(t, f, color) ==
    /\ Return(t, color)
    /\ shade_log' = [shade_log EXCEPT ![t] =
           Some([comps |-> f.comps[1], surface |-> f.surface, reflected |-> f.reflected,
                 refracted |-> f.refracted, color |-> color])]
    /\ RECURSION_DEPTH' = [RECURSION_DEPTH EXCEPT ![DepthCell(t)] = depth_on_return(f.current_depth)]

\* the end of shade_hit and of the color_at that called it
ShadeHitReturn(t) ==
    /\ status[t] = "running"
    /\ Top(t).pc = "blend"
    /\ ShadeHitColor(t, Top(t),
                     shade_hit_blend(world[t], Top(t).comps[1], Top(t).surface,
                                     Top(t).reflected, Top(t).refracted))
    /\ UNCHANGED <<shadowed, world, calls, trace, fn_vars>>

\* a thread calls w.is_shadowed(point) from outside of any color_at
IsShadowedCall(t, s, p) ==
    /\ status[t] # "running"
    /\ calls[t] < MaxCalls
    /\ calls' = [calls EXCEPT ![t] = @ + 1]
    /\ world' = [world EXCEPT ![t] = Scenes[s]]
    /\ result' = [result EXCEPT ![t] = None]
    /\ IF is_shadowed_panics(Scenes[s], p)
       THEN /\ status' = [status EXCEPT ![t] = "panicked"]
            /\ shadowed' = [shadowed EXCEPT ![t] = None]
       ELSE /\ status' = [status EXCEPT ![t] = "done"]
            /\ shadowed' = [shadowed EXCEPT ![t] =
                   Some([point |-> p, occluded |-> is_shadowed(Scenes[s], p)])]
    /\ trace' = [trace EXCEPT ![t] = [base |-> RECURSION_DEPTH[DepthCell(t)], intersected |-> 0, bailed |-> 0, missed |-> 0]]
    /\ steps' = [steps EXCEPT ![t] = 0]
    /\ shade_log' = [shade_log EXCEPT ![t] = None]
    /\ UNCHANGED <<RECURSION_DEPTH, stack, fn_vars>>

\* `assert_eq!(depth.get(), 0)` of World::new fails
World_new_panics(depth) == depth # 0

\* a thread calls World::new() from outside of any color_at; with the new
\* World in its hands it is idle as at the start
CallWorldNew(t) ==
    /\ status[t] # "running"
    /\ calls[t] < MaxCalls
    /\ calls' = [calls EXCEPT ![t] = @ + 1]
    /\ status' = [status EXCEPT ![t] =
           IF World_new_panics(RECURSION_DEPTH[DepthCell(t)]) THEN "panicked" ELSE "idle"]
    /\ world' = [world EXCEPT ![t] =
           IF World_new_panics(RECURSION_DEPTH[DepthCell(t)]) THEN @ ELSE World(<<>>, None, <<>>)]
    /\ result' = [result EXCEPT ![t] = None]
    /\ shadowed' = [shadowed EXCEPT ![t] = None]
    /\ trace' = [trace EXCEPT ![t] = [base |-> RECURSION_DEPTH[DepthCell(t)], intersected |-> 0, bailed |-> 0, missed |-> 0]]
    /\ steps' = [steps EXCEPT ![t] = 0]
    /\ shade_log' = [shade_log EXCEPT ![t] = None]
    /\ UNCHANGED <<RECURSION_DEPTH, stack, fn_vars>>

\* a thread inside color_at executes its next step
Advance(t) ==
    /\ status[t] = "running"
    /\ steps' = [steps EXCEPT ![t] = @ + 1]

Step(t) ==
    /\ Advance(t)
    /\ \/ ColorAtEnter(t)
       \/ ReflectedColor(t)
       \/ RefractedColor(t)
       \/ ShadeHitReturn(t)

\* the points that is_shadowed is asked about
Points == {Rays[r].origin : r \in 1..Len(Rays)}

TracerInit(budget) ==
    /\ RECURSION_DEPTH = [c \in Threads |-> 0]
    /\ stack = [t \in Threads |-> <<>>]
    /\ status = [t \in Threads |-> "idle"]
    /\ result = [t \in Threads |-> None]
    /\ shadowed = [t \in Threads |-> None]
    /\ world = [t \in Threads |-> Scenes[8]]
    /\ calls = [t \in Threads |-> MaxCalls - budget[t]]
    /\ trace = [t \in Threads |-> [base |-> 0, intersected |-> 0, bailed |-> 0, missed |-> 0]]
    /\ steps = [t \in Threads |-> 0]
    /\ shade_log = [t \in Threads |-> None]

\* one thread makes MaxCalls calls, one after the other
Init ==
    /\ TracerInit([t \in Threads |-> IF t = 1 THEN MaxCalls ELSE 0])
    /\ fin = None
    /\ fout = None

Next ==
    \/ \E s \in 1..Len(Scenes), r \in 1..Len(Rays) : StartColorAt(1, s, r)
    \/ \E s \in 1..Len(Scenes), p \in Points : IsShadowedCall(1, s, p)
    \/ CallWorldNew(1)
    \/ Step(1)

Spec == Init /\ [][Next]_vars

\* a thread that is inside color_at keeps running: its next step is taken
SpecLive == Init /\ [][Next]_vars /\ WF_steps(Advance(1))

\* two threads render one ray each, concurrently, in worlds with and without
\* recursion
ThreadScenes == {1, 2, 3}

InitThreads ==
    /\ TracerInit([t \in Threads |-> 1])
    /\ fin = None
    /\ fout = None

NextThreads ==
    \E t \in Threads :
        \/ \E s \in ThreadScenes : StartColorAt(t, s, 1)
        \/ Step(t)

SpecThreads == InitThreads /\ [][NextThreads]_vars

-----------------------------------------------------------------------------
(* Direct calls of hit, World::intersect and prepare_computations          *)

\* glass_sphere() with a transform and a refractive index
glass_sphere(id, transform_, refractive_index) ==
    Sphere(id, transform_, [glass EXCEPT !.refractive_index = refractive_index])

\* the spheres a, b and c of finding_n1_and_n2_at_various_intersections
GlassWorld ==
    World(<<glass_sphere(0, scaling(2 * ONE, 2 * ONE, 2 * ONE), ((3 * ONE) \div 2)),
            glass_sphere(1, translation(0, 0, -(ONE \div 4)), 2 * ONE),
            glass_sphere(2, translation(0, 0, ONE \div 4), ((5 * ONE) \div 2))>>,
          None, <<>>)

GlassRay == Ray(point(0, 0, -4 * ONE), vector(0, 0, ONE))

\* the t of the six crossings of that test, in order
CrossingTimes ==
    <<2 * ONE, ((11 * ONE) \div 4), ((13 * ONE) \div 4), ((19 * ONE) \div 4), ((21 * ONE) \div 4), 6 * ONE>>

\* two glass spheres that share their whole boundary
TwinWorld ==
    World(<<glass_sphere(0, identity, ((3 * ONE) \div 2)), glass_sphere(1, identity, 2 * ONE)>>,
          None, <<>>)

\* orders in which a ray can cross the boundaries of up to three spheres:
\* every sphere is crossed twice or not at all
CrossingOrders ==
    UNION {{q \in [1..n -> 1..3] :
               \A i \in 1..3 : Cardinality({j \in 1..n : q[j] = i}) \in {0, 2}} : n \in {2, 4, 6}}

\* where two neighbouring crossings get the same t (0: nowhere)
TiePositions == 0..2

\* the sorted list for an order of crossings and a tie position
CrossingList(q, tie) ==
    [j \in 1..Len(q) |->
        Intersection(IF tie # 0 /\ j = tie + 1 THEN CrossingTimes[tie] ELSE CrossingTimes[j],
                     SphereRef(q[j]))]

\* longest hand-made list that hit is called with
MaxLen == 3

\* the t of the hand-made lists
HitTimes == {-ONE, 0, ONE, 2 * ONE}

\* a list in any order for a choice of t
HitList(ts) == [j \in 1..Len(ts) |-> Intersection(ts[j], SphereRef(((j - 1) % 3) + 1))]

Input(w, ray, xs) == [w |-> w, ray |-> ray, xs |-> xs]

Inputs ==
    {Input(GlassWorld, GlassRay, Some(CrossingList(q, tie))) :
         q \in CrossingOrders, tie \in TiePositions}
    \cup {Input(GlassWorld, GlassRay, Some(HitList(ts))) :
              ts \in UNION {[1..n -> HitTimes] : n \in 0..MaxLen}}
    \cup {Input(TwinWorld, GlassRay, Some(World_intersect(TwinWorld, GlassRay)))}
    \cup {Input(Scenes[s], Rays[r], None) : s \in 1..Len(Scenes), r \in 1..Len(Rays)}
    \cup {Input(GlassWorld, GlassRay, None), Input(TwinWorld, GlassRay, None)}

Output(op, k, listed, xs, h, comps) ==
    [op |-> op, k |-> k, listed |-> listed, xs |-> xs, h |-> h, comps |-> comps]

NoOutput == Output("none", 0, FALSE, <<>>, None, None)

\* w.intersect(ray)
CallIntersect ==
    /\ fout.op = "none"
    /\ fin.xs = None
    /\ fout' = Output("intersect", 0, FALSE, World_intersect(fin.w, fin.ray), None, None)
    /\ UNCHANGED <<fin, tracer_vars>>

\* hit(&xs)
CallHit ==
    /\ fout.op = "none"
    /\ fin.xs # None
    /\ fout' = Output("hit", 0, FALSE, <<>>, hit(fin.xs[1]), None)
    /\ UNCHANGED <<fin, tracer_vars>>

\* xs[k].prepare_computations(ray, Some(xs)), or with None when not listed
CallPrepareComputations(k, listed) ==
    /\ fout.op = "none"
    /\ fin.xs # None
    /\ k \in 1..Len(fin.xs[1])
    /\ ~prepare_computations_panics(fin.w, fin.xs[1][k], fin.ray)
    /\ fout' = Output("prepare_computations", k, listed, <<>>, None,
                      Some(prepare_computations(fin.w, fin.xs[1][k], fin.ray,
                                                IF listed THEN fin.xs ELSE None)))
    /\ UNCHANGED <<fin, tracer_vars>>

InitCalls ==
    /\ TracerInit([t \in Threads |-> 0])
    /\ fin \in Inputs
    /\ fout = NoOutput

NextCalls ==
    \/ CallIntersect
    \/ CallHit
    \/ \E k \in 1..(2 * MaxLen), listed \in BOOLEAN : CallPrepareComputations(k, listed)

SpecCalls == InitCalls /\ [][NextCalls]_vars

-----------------------------------------------------------------------------
(* Properties of the recursive tracer                                      *)

Finished(t) == status[t] \in {"done", "panicked"}

\* the frames of thread t that are past the depth check of color_at
Passed(t) == {i \in 1..Len(stack[t]) : stack[t][i].pc # "color_at"}

\* the color that a returning color_at handed to its caller
Handed(t) ==
    IF Len(stack[t]) = 1 THEN result'[t]
    ELSE LET parent == stack'[t][Len(stack'[t])]
         IN  Some(IF Top(t).caller = "reflected_color" THEN parent.reflected ELSE parent.refracted)

\* C1 as stated: every call of color_at terminates and returns a color.
C1_AlwaysAColor ==
    \A t \in {1} : (status[t] = "running") ~> (status[t] = "done" /\ result[t] # None)

\* C1 (amended): every call of color_at terminates, with a color or with a
\* panic of the shading, and the recursion never nests deeper than the
\* MAX_RECURSION_DEPTH frames that passed the check plus the one that bails.
C1_Terminates ==
    /\ [](\A t \in Threads : Len(stack[t]) <= MAX_RECURSION_DEPTH + 1)
    /\ \A t \in {1} : (status[t] = "running") ~>
           ((status[t] = "done" /\ result[t] # None) \/ status[t] = "panicked")

\* a mirror ball was traced down to the depth bound and a color came back
C1_Witness ==
    /\ world[1] = Scenes[1]
    /\ status[1] = "done"
    /\ result[1] # None
    /\ trace[1].bailed >= 1
    /\ trace[1].intersected = MAX_RECURSION_DEPTH

\* C2: a color_at that finds the counter at MAX_RECURSION_DEPTH hands black
\* to its caller without intersecting the world and without touching the
\* counter, so reflected_color and refracted_color get black at that depth.
C2_BlackAtMaxDepth ==
    [][\A t \in Threads :
          (/\ status[t] = "running"
           /\ Top(t).pc = "color_at"
           /\ RECURSION_DEPTH[t] = MAX_RECURSION_DEPTH
           /\ stack'[t] # stack[t])
          => /\ trace'[t].intersected = trace[t].intersected
             /\ Len(stack'[t]) = Len(stack[t]) - 1
             /\ Handed(t) = Some(COLOR_BLACK)
             /\ RECURSION_DEPTH'[t] = MAX_RECURSION_DEPTH]_vars

\* a shade_hit of a reflective and transparent surface whose two rays both
\* came back black from the depth bound
C2_Witness ==
    \E t \in Threads :
        /\ status[t] = "running"
        /\ RECURSION_DEPTH[t] = MAX_RECURSION_DEPTH
        /\ Top(t).pc = "blend"
        /\ trace[t].bailed >= 2
        /\ ~reflected_color_is_black(world[t], Top(t).comps[1])
        /\ ~refracted_color_is_black(world[t], Top(t).comps[1])
        /\ Top(t).reflected = COLOR_BLACK
        /\ Top(t).refracted = COLOR_BLACK

\* C3: whenever a color_at returns (bail, no hit or shaded hit) the counter is
\* back at the value it had on entry; so every nested call starts one above
\* its caller's entry value, the reflected and the refracted one alike, and
\* a finished top-level call leaves the counter where it found it.
C3_DepthRestored ==
    /\ [](\A t \in Threads :
             /\ \A i \in 2..Len(stack[t]) :
                    stack[t][i].entry_depth = stack[t][i - 1].entry_depth + 1
             /\ status[t] = "done" => RECURSION_DEPTH[t] = trace[t].base)
    /\ [][\A t \in Threads :
             (Len(stack'[t]) < Len(stack[t]) /\ status'[t] # "panicked")
             => RECURSION_DEPTH'[t] = Top(t).entry_depth]_vars

\* a finished call in which color_at returned on each of its three paths
C3_Witness ==
    \E t \in Threads :
        /\ status[t] = "done"
        /\ trace[t].bailed >= 1
        /\ trace[t].missed >= 1
        /\ shade_log[t] # None
        /\ RECURSION_DEPTH[t] = trace[t].base

\* C4: the counter of a thread is the number of its own color_at frames that
\* passed the check and every color_at reads the number of its own callers,
\* whatever the other thread does; a step of one thread leaves the counter
\* of the other one alone.
C4_ThreadLocal ==
    /\ [](\A t \in Threads :
             /\ status[t] # "panicked" => RECURSION_DEPTH[t] = Cardinality(Passed(t))
             /\ \A i \in 1..Len(stack[t]) : stack[t][i].entry_depth = i - 1)
    /\ [][\A t \in Threads :
             (stack'[t] = stack[t] /\ status'[t] = status[t])
             => RECURSION_DEPTH'[t] = RECURSION_DEPTH[t]]_vars

\* both threads are inside color_at, at different depths
C4_Witness ==
    /\ status[1] = "running"
    /\ status[2] = "running"
    /\ RECURSION_DEPTH[1] = MAX_RECURSION_DEPTH
    /\ RECURSION_DEPTH[2] = 1

\* C9: in a World without a light no shade_hit and no is_shadowed ever returns:
\* the call panics, and a color_at of that World returns only when its ray
\* hits nothing.
C9_NoLightPanics ==
    \A t \in Threads :
        world[t].light = None =>
            /\ shade_log[t] = None
            /\ shadowed[t] = None
            /\ Passed(t) = {}
            /\ status[t] = "done" => (trace[t].missed = 1 /\ result[t] = Some(COLOR_BLACK))
            /\ (status[t] \in {"done", "panicked"} /\ trace[t].missed = 0) => status[t] = "panicked"

\* a ray hit the ball of the dark World and the call panicked
C9_Witness ==
    \E t \in Threads :
        /\ world[t] = Scenes[2]
        /\ status[t] = "panicked"
        /\ trace[t].intersected = 1
        /\ result[t] = None

\* C10: shade_hit returns surface + reflected * reflectance + refracted *
\* (1 - reflectance) exactly when the material is reflective and transparent,
\* and surface + reflected + refracted otherwise.
C10_Blend ==
    \A t \in Threads :
        shade_log[t] # None =>
            LET l == shade_log[t][1]
                m == material(world[t], l.comps.object)
                reflectance == schlick(l.comps)
                weighted == color_add(color_add(l.surface, color_scale(l.reflected, reflectance)),
                                      color_scale(l.refracted, ONE - reflectance))
                plain == color_add(color_add(l.surface, l.reflected), l.refracted)
            IN  l.color = IF m.reflective > 0 /\ m.transparency > 0 THEN weighted ELSE plain

\* a shade_hit of a reflective and transparent surface with a reflected and a
\* refracted color, where the two sums differ
C10_Witness ==
    \E t \in Threads :
        /\ shade_log[t] # None
        /\ LET l == shade_log[t][1]
               m == material(world[t], l.comps.object)
           IN  /\ m.reflective > 0
               /\ m.transparency > 0
               /\ l.reflected # COLOR_BLACK
               /\ l.refracted # COLOR_BLACK
               /\ l.color # color_add(color_add(l.surface, l.reflected), l.refracted)

-----------------------------------------------------------------------------
(* Properties of hit, World::intersect and prepare_computations            *)

Sorted(xs) == \A i \in 1..(Len(xs) - 1) : xs[i].t <= xs[i + 1].t

\* the positions of a list whose t is not negative
NonNegative(xs) == {i \in 1..Len(xs) : xs[i].t >= 0}

\* C5: for every list, sorted or not, hit returns an intersection of the list
\* whose t is the least t >= 0 of the list (0 included), and returns none
\* exactly when the list has no t >= 0.
C5_HitIsLowestNonNegative ==
    fout.op = "hit" =>
        LET xs == fin.xs[1]
        IN  IF NonNegative(xs) = {}
            THEN fout.h = None
            ELSE /\ fout.h # None
                 /\ \E i \in NonNegative(xs) : xs[i] = fout.h[1]
                 /\ \A i \in NonNegative(xs) : fout.h[1].t <= xs[i].t

\* hit chose t = 0 in a list that is not sorted and has a negative t
C5_Witness ==
    /\ fout.op = "hit"
    /\ fout.h # None
    /\ fout.h[1].t = 0
    /\ ~Sorted(fin.xs[1])
    /\ \E i \in 1..Len(fin.xs[1]) : fin.xs[1][i].t < 0

\* every sphere and every plane of a world
Shapes(w) ==
    {SphereRef(i) : i \in 1..Len(w.objects)} \cup {PlaneRef(i) : i \in 1..Len(w.planes)}

\* C6: World::intersect returns the intersections of every sphere and plane
\* of the world with the ray, each of them once and nothing else, in
\* ascending order of t.
C6_IntersectAllSorted ==
    fout.op = "intersect" =>
        /\ Sorted(fout.xs)
        /\ \A i \in 1..Len(fout.xs) : fout.xs[i].object \in Shapes(fin.w)
        /\ \A shape \in Shapes(fin.w) :
               SelectSeq(fout.xs, LAMBDA i : i.object = shape) = intersect(fin.w, shape, fin.ray)

\* six intersections of three nested spheres came back in order
C6_Witness ==
    /\ fout.op = "intersect"
    /\ Len(fout.xs) = 6
    /\ Len(fin.w.objects) = 3
    /\ fout.xs[1].object = fout.xs[6].object
    /\ fout.xs[2].object = fout.xs[5].object
    /\ fout.xs[1].t < fout.xs[2].t

\* the list of finding_n1_and_n2_at_various_intersections
GlassList == CrossingList(<<1, 2, 3, 2, 3, 1>>, 0)

\* the n1 and n2 that the test expects at index 0..5
GlassIndices ==
    <<<<ONE, ((3 * ONE) \div 2)>>, <<((3 * ONE) \div 2), 2 * ONE>>, <<2 * ONE, ((5 * ONE) \div 2)>>,
      <<((5 * ONE) \div 2), ((5 * ONE) \div 2)>>, <<((5 * ONE) \div 2), ((3 * ONE) \div 2)>>,
      <<((3 * ONE) \div 2), ONE>>>>

\* C7: for the glass spheres A (1.5), B (2.0), C (2.5) and the list (2:A,
\* 2.75:B, 3.25:C, 4.75:B, 5.25:C, 6:A) prepare_computations yields (n1, n2) =
\* (1.0,1.5), (1.5,2.0), (2.0,2.5), (2.5,2.5), (2.5,1.5), (1.5,1.0) at index 0..5.
C7_GlassIndices ==
    (fout.op = "prepare_computations" /\ fout.listed /\ fin.w = GlassWorld /\ fin.xs = Some(GlassList))
    => <<fout.comps[1].n1, fout.comps[1].n2>> = GlassIndices[fout.k]

\* the intersection at index 3, where the ray leaves B inside of C
C7_Witness ==
    /\ fout.op = "prepare_computations"
    /\ fout.listed
    /\ fin.w = GlassWorld
    /\ fin.xs = Some(GlassList)
    /\ fout.k = 4
    /\ fout.comps[1].n1 = ((5 * ONE) \div 2)
    /\ fout.comps[1].n2 = ((5 * ONE) \div 2)

\* the shapes that the first j intersections of xs entered and did not leave
Entered(xs, j) ==
    {shape \in {xs[i].object : i \in 1..j} :
        Cardinality({i \in 1..j : xs[i].object = shape}) % 2 = 1}

\* where the first j intersections of xs entered shape for the last time
EnteredAt(xs, j, shape) ==
    CHOOSE i \in 1..j : xs[i].object = shape /\ \A l \in (i + 1)..j : xs[l].object # shape

\* refractive index of the innermost shape after the first j intersections
InnermostIndex(w, xs, j) ==
    IF Entered(xs, j) = {} THEN ONE
    ELSE LET innermost == CHOOSE shape \in Entered(xs, j) :
                 \A other \in Entered(xs, j) : EnteredAt(xs, j, other) <= EnteredAt(xs, j, shape)
         IN  material(w, innermost).refractive_index

\* C8: for every target intersection of a sorted list, equal t included, n1 is
\* the refractive index of the innermost container just before the target's
\* own toggle and n2 the one just after it (1.0 when there is none).
C8_WalkCorrect ==
    (fout.op = "prepare_computations" /\ fout.listed /\ Sorted(fin.xs[1]))
    => /\ fout.comps[1].n1 = InnermostIndex(fin.w, fin.xs[1], fout.k - 1)
       /\ fout.comps[1].n2 = InnermostIndex(fin.w, fin.xs[1], fout.k)

\* what the walk does compute: the indices around the first intersection of
\* the list that has the t of the target
FirstWithT(xs, k) == CHOOSE i \in 1..k : xs[i].t = xs[k].t /\ \A l \in 1..(i - 1) : xs[l].t # xs[k].t

C8_WalkStopsAtFirstT ==
    (fout.op = "prepare_computations" /\ fout.listed /\ Sorted(fin.xs[1]))
    => /\ fout.comps[1].n1 = InnermostIndex(fin.w, fin.xs[1], FirstWithT(fin.xs[1], fout.k) - 1)
       /\ fout.comps[1].n2 = InnermostIndex(fin.w, fin.xs[1], FirstWithT(fin.xs[1], fout.k))

\* the second of two intersections with the same t was the target
C8_Witness ==
    /\ fout.op = "prepare_computations"
    /\ fout.listed
    /\ fin.w = TwinWorld
    /\ fout.k = 2
    /\ fin.xs[1][1].t = fin.xs[1][2].t
    /\ fout.comps[1].n1 = ONE

-----------------------------------------------------------------------------
(* Properties of is_shadowed                                               *)

\* the t of every intersection of the shapes of w with the ray r
CrossingsOf(w, r) ==
    UNION {{intersect(w, shape, r)[i].t : i \in 1..Len(intersect(w, shape, r))} : shape \in Shapes(w)}

\* the ray that is_shadowed casts from the point p toward the light of w
ShadowRay(w, p) == Ray(p, normalize(tuple_sub(w.light[1].position, p)))

\* the distance from the point p to the light of w
LightDistance(w, p) == magnitude(tuple_sub(w.light[1].position, p))

\* C11: is_shadowed(point) is true exactly when the smallest non-negative t
\* of the ray from point toward the light, over every shape of the world, is
\* smaller than the distance to the light; when every shape is crossed behind
\* the point (t < 0) or beyond the light (t >= distance) the answer is false.
C11_ShadowedIffOccluded ==
    \A t \in Threads :
        shadowed[t] # None =>
            LET p == shadowed[t][1].point
                ahead == {x \in CrossingsOf(world[t], ShadowRay(world[t], p)) : x >= 0}
                distance == LightDistance(world[t], p)
            IN  /\ shadowed[t][1].occluded <=>
                       /\ ahead # {}
                       /\ \E x \in ahead : (\A y \in ahead : x <= y) /\ x < distance
                /\ (\A x \in CrossingsOf(world[t], ShadowRay(world[t], p)) : x < 0 \/ x >= distance)
                       => ~shadowed[t][1].occluded

\* a point between the light and the wall of the ball around both: the ray
\* crosses the ball behind the point and beyond the light, and the point is lit
C11_Witness ==
    \E t \in Threads :
        /\ shadowed[t] # None
        /\ ~shadowed[t][1].occluded
        /\ \E x \in CrossingsOf(world[t], ShadowRay(world[t], shadowed[t][1].point)) : x < 0
        /\ \E x \in CrossingsOf(world[t], ShadowRay(world[t], shadowed[t][1].point)) :
               x >= LightDistance(world[t], shadowed[t][1].point)

-----------------------------------------------------------------------------
(* Direct calls of the functions of the geometry and shading core: the     *)
(* call and its arguments are in fin, what it returned is in fout          *)

FnCall(call, with) == [call |-> call, with |-> with]

NoResult == [done |-> FALSE, panicked |-> FALSE, value |-> <<>>]

Returned(value) == [done |-> TRUE, panicked |-> FALSE, value |-> value]

Panicked == [done |-> TRUE, panicked |-> TRUE, value |-> <<>>]

\* lighting(&m, &object, &light, position, eyev, normalv, in_shadow)
CallLighting ==
    /\ fin.call = "lighting"
    /\ fout = NoResult
    /\ fout' = Returned(lighting(fin.with.m, fin.with.object, fin.with.light, fin.with.position,
                                 fin.with.eyev, fin.with.normalv, fin.with.in_shadow))
    /\ UNCHANGED <<fin, tracer_vars>>

\* the materials, lights and directions of the lighting tests and some more
LightingInputs ==
    {FnCall("lighting", [m |-> m, object |-> SphereRef(1), light |-> point_light(at, intensity),
                         position |-> point(0, 0, 0), eyev |-> eyev, normalv |-> normalv,
                         in_shadow |-> in_shadow]) :
        m \in {Material_new, tinted_glass, [Material_new EXCEPT !.ambient = ONE \div 2]},
        at \in {point(0, 0, -10 * ONE), point(0, 10 * ONE, -10 * ONE), point(0, 0, 10 * ONE)},
        intensity \in {Color(ONE, ONE, ONE), Color(ONE \div 2, ONE, ONE \div 4)},
        eyev \in {vector(0, 0, -ONE), vector(0, -ONE, 0)},
        normalv \in {vector(0, 0, -ONE), vector(0, ONE, 0)},
        in_shadow \in BOOLEAN}

\* s.local_intersect(local_ray) on a sphere
CallSphereLocalIntersect ==
    /\ fin.call = "Sphere::local_intersect"
    /\ fout = NoResult
    /\ fout' = Returned(Sphere_local_intersect(fin.with.self, fin.with.local_ray))
    /\ UNCHANGED <<fin, tracer_vars>>

\* rays along and across the z axis, of several lengths of direction: through
\* the centre, off centre, tangent, missing, from inside, with the sphere behind
SphereRayInputs ==
    {FnCall("Sphere::local_intersect",
            [self |-> SphereRef(id), local_ray |-> Ray(point(0, y, z), vector(0, dy, dz))]) :
        id \in 1..2,
        y \in {0, ONE \div 2, ONE, 2 * ONE},
        z \in {-5 * ONE, 0, 5 * ONE},
        dy \in {0, ONE},
        dz \in {-ONE, ONE \div 2, ONE}}

\* p.local_intersect(local_ray) on a plane
CallPlaneLocalIntersect ==
    /\ fin.call = "Plane::local_intersect"
    /\ fout = NoResult
    /\ fout' = Returned(Plane_local_intersect(fin.with.self, fin.with.local_ray))
    /\ UNCHANGED <<fin, tracer_vars>>

\* the rays of the plane tests (parallel, coplanar, from above, from below)
\* and slanted ones
PlaneRayInputs ==
    {c \in {FnCall("Plane::local_intersect",
            [self |-> PlaneRef(1), local_ray |-> Ray(point(0, y, 0), vector(0, dy, dz))]) :
        y \in {-ONE, 0, ONE, 10 * ONE},
        dy \in {-ONE, 0, ONE},
        dz \in {0, ONE}} : c.with.local_ray.direction # vector(0, 0, 0)}

\* m.inverse()
CallInverse ==
    /\ fin.call = "inverse"
    /\ fout = NoResult
    /\ fout' = IF inverse_panics(fin.with.m) THEN Panicked ELSE Returned(inverse(fin.with.m))
    /\ UNCHANGED <<fin, tracer_vars>>

\* a.normalize()
CallNormalize ==
    /\ fin.call = "normalize"
    /\ fout = NoResult
    /\ fout' = IF normalize_panics(fin.with.a) THEN Panicked ELSE Returned(normalize(fin.with.a))
    /\ UNCHANGED <<fin, tracer_vars>>

\* a.cross(b)
CallCross ==
    /\ fin.call = "cross"
    /\ fout = NoResult
    /\ fout' = IF cross_panics(fin.with.a, fin.with.b) THEN Panicked
               ELSE Returned(cross(fin.with.a, fin.with.b))
    /\ UNCHANGED <<fin, tracer_vars>>

\* a.reflect(b)
CallReflect ==
    /\ fin.call = "reflect"
    /\ fout = NoResult
    /\ fout' = IF reflect_panics(fin.with.a, fin.with.b) THEN Panicked
               ELSE Returned(reflect(fin.with.a, fin.with.b))
    /\ UNCHANGED <<fin, tracer_vars>>

\* the matrices A and B of multiplying_product_by_its_inverse
MatrixA ==
    << <<3 * ONE, -9 * ONE, 7 * ONE, 3 * ONE>>, <<3 * ONE, -8 * ONE, 2 * ONE, -9 * ONE>>,
       <<-4 * ONE, 4 * ONE, 4 * ONE, ONE>>, <<-6 * ONE, 5 * ONE, -ONE, ONE>> >>

MatrixB ==
    << <<8 * ONE, 2 * ONE, 2 * ONE, 2 * ONE>>, <<3 * ONE, -ONE, 7 * ONE, 0>>,
       <<7 * ONE, 0, 5 * ONE, 4 * ONE>>, <<6 * ONE, -2 * ONE, 0, 5 * ONE>> >>

\* the matrix of noninvertible_matrix_for_invertibility
MatrixSingular ==
    << <<-4 * ONE, 2 * ONE, -2 * ONE, -3 * ONE>>, <<9 * ONE, 6 * ONE, 2 * ONE, 6 * ONE>>,
       <<0, -5 * ONE, ONE, -5 * ONE>>, <<0, 0, 0, 0>> >>

\* transformations that are built from translation and scaling
Transforms ==
    {identity, translation(ONE, -2 * ONE, 3 * ONE), scaling(2 * ONE, ONE \div 2, -ONE),
     multiply_matrix(translation(5 * ONE, 0, -ONE), scaling(4 * ONE, 4 * ONE, ONE \div 4)),
     multiply_matrix(scaling(ONE \div 2, 2 * ONE, 2 * ONE), translation(0, ONE, ONE))}

Matrices ==
    Transforms \cup {MatrixA, MatrixB, MatrixSingular, scaling(ONE, 0, ONE),
                     [i \in 1..4 |-> [j \in 1..4 |-> ONE]]}

InverseInputs == {FnCall("inverse", [m |-> m]) : m \in Matrices}

\* coordinates of the tuples that are combined
Coordinates == {-ONE, 0, 2 * ONE}

Tuples ==
    {make_tuple(x, y, z, w) : x \in Coordinates, y \in {0, ONE}, z \in {0, ONE},
                              w \in {W_VECTOR, W_POINT}}

NormalizeInputs == {FnCall("normalize", [a |-> t]) : t \in Tuples}

CrossInputs == {FnCall("cross", [a |-> t, b |-> u]) : t \in Tuples, u \in {vector(0, ONE, 0), point(ONE, 0, 0), make_tuple(0, 0, ONE, 2 * ONE)}}

ReflectInputs == {FnCall("reflect", [a |-> t, b |-> u]) : t \in Tuples, u \in {vector(0, ONE, 0), point(ONE, 0, 0), make_tuple(0, 0, ONE, 2 * ONE)}}

\* point(x, y, z)
CallPoint ==
    /\ fin.call = "point"
    /\ fout = NoResult
    /\ fout' = Returned(point(fin.with.x, fin.with.y, fin.with.z))
    /\ UNCHANGED <<fin, tracer_vars>>

\* vector(x, y, z)
CallVector ==
    /\ fin.call = "vector"
    /\ fout = NoResult
    /\ fout' = Returned(vector(fin.with.x, fin.with.y, fin.with.z))
    /\ UNCHANGED <<fin, tracer_vars>>

\* make_tuple(x, y, z, w), which is also what Tuple4::new(x, y, z, w) builds
CallMakeTuple ==
    /\ fin.call = "make_tuple"
    /\ fout = NoResult
    /\ fout' = Returned(make_tuple(fin.with.x, fin.with.y, fin.with.z, fin.with.w))
    /\ UNCHANGED <<fin, tracer_vars>>

\* a + b on Tuple4
CallAdd ==
    /\ fin.call = "add"
    /\ fout = NoResult
    /\ fout' = Returned(tuple_add(fin.with.a, fin.with.b))
    /\ UNCHANGED <<fin, tracer_vars>>

\* a - b on Tuple4
CallSub ==
    /\ fin.call = "sub"
    /\ fout = NoResult
    /\ fout' = Returned(tuple_sub(fin.with.a, fin.with.b))
    /\ UNCHANGED <<fin, tracer_vars>>

ConstructorInputs ==
    {FnCall(call, [x |-> x, y |-> y, z |-> z]) :
        call \in {"point", "vector"}, x \in Coordinates, y \in Coordinates, z \in {0, ONE}}
    \cup {FnCall("make_tuple", [x |-> x, y |-> ONE, z |-> 0, w |-> w]) :
              x \in Coordinates, w \in {-4 * ONE, W_VECTOR, ONE \div 2, W_POINT, 2 * ONE}}

ArithmeticInputs ==
    {FnCall(call, [a |-> a, b |-> b]) : call \in {"add", "sub"}, a \in Tuples, b \in Tuples}

-----------------------------------------------------------------------------
(* canvas.rs : a String is a sequence of characters                        *)

Canvas(width, height, pixels) == [width |-> width, height |-> height, pixels |-> pixels]

\* check_xy and the read of self.pixels[pos]; x and y are numbered from 0
pixel_at(canvas, x, y) == canvas.pixels[y * canvas.width + x + 1]

\* c.clamp(0.0, 1.0), then (c * 255.0).round() as u8
scale_color(c) ==
    IF c < 0 THEN 0
    ELSE IF c > ONE THEN 255
    ELSE (c * 255 + ONE \div 2) \div ONE

Numerals == <<"0", "1", "2", "3", "4", "5", "6", "7", "8", "9">>

RECURSIVE to_string(_)
\* val.to_string() of an unsigned integer
to_string(val) ==
    IF val < 10 THEN <<Numerals[val + 1]>>
    ELSE Append(to_string(val \div 10), Numerals[(val % 10) + 1])

RECURSIVE trim_end(_)
\* line.trim_end()
trim_end(line) ==
    IF line # <<>> /\ line[Len(line)] = " " THEN trim_end(SubSeq(line, 1, Len(line) - 1))
    ELSE line

\* the k-th value of row y: the channels of the pixels (r, g, b), left to right
value_at(canvas, y, k) ==
    IF k % 3 = 1 THEN scale_color(pixel_at(canvas, (k - 1) \div 3, y).red)
    ELSE IF k % 3 = 2 THEN scale_color(pixel_at(canvas, (k - 1) \div 3, y).green)
    ELSE scale_color(pixel_at(canvas, (k - 1) \div 3, y).blue)

\* the line is written out and cleared
flush(st) == [ppm |-> st.ppm \o trim_end(st.line) \o <<"\n">>, line |-> <<>>, line_len |-> 0]

\* the space is left out of the count
wrap_without_extra(st, s) == IF st.line_len + Len(s) > 70 THEN flush(st) ELSE st

\* `if line_len + s.len() + extra > 70 { .. }`
wrap(st, s) ==
    IF st.line_len + Len(s) + (IF st.line_len = 0 THEN 0 ELSE 1) > 70 THEN flush(st) ELSE st

\* a space when the line is not empty, then the value
push_str(st, s) ==
    IF st.line_len > 0
    THEN [st EXCEPT !.line = @ \o <<" ">> \o s, !.line_len = @ + 1 + Len(s)]
    ELSE [st EXCEPT !.line = @ \o s, !.line_len = @ + Len(s)]

\* the three lines pushed before the loop
header(canvas) ==
    <<"P", "3", "\n">> \o to_string(canvas.width) \o <<" ">> \o to_string(canvas.height)
    \o <<"\n", "2", "5", "5", "\n">>

\* the body of `for val in [r, g, b]`
push_value(st, s) == push_str(wrap(st, s), s)

\* `if !ppm.ends_with('\n') { ppm.push('\n'); }`
end_with_newline(ppm) == IF ppm[Len(ppm)] # "\n" THEN Append(ppm, "\n") ELSE ppm

\* to_ppm inside its loops: row y is being written and `values` of its values are on the line
Writing(st, y, values) ==
    [done |-> FALSE, panicked |-> FALSE,
     value |-> [ppm |-> st.ppm, line |-> st.line, line_len |-> st.line_len, y |-> y, values |-> values]]

\* `assert!(line_len <= 70, ..)` at the end of the body
push_value_checked(st, y, values) ==
    IF st.line_len > 70 THEN Panicked ELSE Writing(st, y, values)

\* c.to_ppm() up to the loop over the rows
CallToPpm ==
    /\ fin.call = "to_ppm"
    /\ fout = NoResult
    /\ fout' = Writing([ppm |-> header(fin.with.canvas), line |-> <<>>, line_len |-> 0], 0, 0)
    /\ UNCHANGED <<fin, tracer_vars>>

\* one turn of `for val in [r, g, b]`, within `for x in 0..self.width`
ToPpmValue ==
    /\ fin.call = "to_ppm"
    /\ ~fout.done
    /\ fout # NoResult
    /\ fout.value.y < fin.with.canvas.height
    /\ fout.value.values < 3 * fin.with.canvas.width
    /\ fout' = push_value_checked(
                   push_value(fout.value,
                              to_string(value_at(fin.with.canvas, fout.value.y, fout.value.values + 1))),
                   fout.value.y, fout.value.values + 1)
    /\ UNCHANGED <<fin, tracer_vars>>

\* the end of a turn of `for y in 0..self.height`: the rest of the line is written out
ToPpmRow ==
    /\ fin.call = "to_ppm"
    /\ ~fout.done
    /\ fout # NoResult
    /\ fout.value.y < fin.with.canvas.height
    /\ fout.value.values = 3 * fin.with.canvas.width
    /\ fout' = Writing(flush(fout.value), fout.value.y + 1, 0)
    /\ UNCHANGED <<fin, tracer_vars>>

\* after the loops
ToPpmReturn ==
    /\ fin.call = "to_ppm"
    /\ ~fout.done
    /\ fout # NoResult
    /\ fout.value.y >= fin.with.canvas.height
    /\ fout' = Returned(end_with_newline(fout.value.ppm))
    /\ UNCHANGED <<fin, tracer_vars>>

\* largest canvas that is written out
MaxWidth == 10

MaxHeight == 2

\* the colors of constructing_the_ppm_pixel_data and splitting_long_lines_in_ppm_files
Palette ==
    <<Color(((3 * ONE) \div 2), 0, 0), Color(0, ONE \div 2, 0), Color(-(ONE \div 2), 0, ONE),
      Color(ONE, ((4 * ONE) \div 5), ((3 * ONE) \div 5)), Color(ONE \div 20, ONE \div 3, ONE)>>

\* the pixel at (x, y) of a painting: one color everywhere, or the palette in turn
Paint(paint, x, y) ==
    IF paint = 0 THEN Color(0, 0, 0)
    ELSE IF paint <= Len(Palette) THEN Palette[paint]
    ELSE Palette[((x + 2 * y + paint) % Len(Palette)) + 1]

\* Canvas::new(width, height) and a write_pixel for every pixel
Painted(width, height, paint) ==
    Canvas(width, height,
           [i \in 1..(width * height) |-> Paint(paint, (i - 1) % width, (i - 1) \div width)])

CanvasInputs ==
    {FnCall("to_ppm", [canvas |-> Painted(width, height, paint)]) :
        width \in 0..MaxWidth, height \in 0..MaxHeight, paint \in 0..(Len(Palette) + 2)}

-----------------------------------------------------------------------------
(* schlick on the Computations of an intersection of a ray with glass      *)

\* `let comps = xs[k].prepare_computations(r, Some(xs.clone())); schlick(&comps)`
CallSchlick ==
    /\ fin.call = "schlick"
    /\ fout = NoResult
    /\ fout' = IF fin.with.k > Len(fin.with.xs) THEN Panicked  \* xs[k] out of bounds
               ELSE IF prepare_computations_panics(fin.with.w, fin.with.xs[fin.with.k], fin.with.ray)
               THEN Panicked
               ELSE Returned(schlick(prepare_computations(fin.with.w, fin.with.xs[fin.with.k],
                                                          fin.with.ray, Some(fin.with.xs))))
    /\ UNCHANGED <<fin, tracer_vars>>

\* glass_sphere() alone; a glass sphere inside a second one of the same glass;
\* a glass sphere inside a denser one
GlassScenes ==
    <<World(<<glass_sphere(0, identity, ((3 * ONE) \div 2))>>, None, <<>>),
      World(<<glass_sphere(0, scaling(2 * ONE, 2 * ONE, 2 * ONE), ((3 * ONE) \div 2)),
              glass_sphere(1, identity, ((3 * ONE) \div 2))>>, None, <<>>),
      World(<<glass_sphere(0, scaling(2 * ONE, 2 * ONE, 2 * ONE), 2 * ONE),
              glass_sphere(1, identity, ((3 * ONE) \div 2))>>, None, <<>>)>>

\* rays through the centre, which meet every sphere at a right angle
CentreRays ==
    {Ray(point(0, 0, 0), vector(0, ONE, 0)), Ray(point(0, 0, 0), vector(ONE, 0, 0)),
     Ray(point(0, 0, -4 * ONE), vector(0, 0, ONE))}

\* the rays of the three schlick tests and rays that leave the glass at other angles
GlassRays ==
    CentreRays
    \cup {Ray(point(0, 0, z), vector(0, ONE, 0)) :
              z \in {ONE \div 4, ONE \div 2, HalfSqrt2, ((9 * ONE) \div 10)}}
    \cup {Ray(point(0, ((99 * ONE) \div 100), -2 * ONE), vector(0, 0, ONE))}

\* every intersection of a ray with a scene, with the list World::intersect returns
SchlickInputs ==
    {FnCall("schlick", [w |-> GlassScenes[s], ray |-> ray, xs |-> World_intersect(GlassScenes[s], ray), k |-> k]) :
        s \in 1..Len(GlassScenes), ray \in GlassRays, k \in 1..4}
    \ {FnCall("schlick", [w |-> GlassScenes[s], ray |-> ray, xs |-> World_intersect(GlassScenes[s], ray), k |-> k]) :
        s \in {j \in 1..Len(GlassScenes) : Len(GlassScenes[j].objects) = 1}, ray \in GlassRays, k \in 3..4}

-----------------------------------------------------------------------------
(* prepare_computations of an intersection that need not be in the list    *)

\* `self.prepare_computations(ray, xs_or_none)`
CallPrepare ==
    /\ fin.call = "prepare_computations"
    /\ fout = NoResult
    /\ fout' = IF prepare_computations_panics(fin.with.w, fin.with.self, fin.with.ray)
               THEN Panicked
               ELSE Returned(prepare_computations(fin.with.w, fin.with.self, fin.with.ray,
                                                  fin.with.xs_or_none))
    /\ UNCHANGED <<fin, tracer_vars>>

\* the t of the intersections that are prepared: the first and the third
\* crossing, the centre of the large sphere, and a t beyond every crossing
PreparedTimes == {2 * ONE, ((13 * ONE) \div 4), 4 * ONE, 7 * ONE}

\* no list, the empty list, lists of one intersection, and the sorted lists
\* of two and four crossings
PreparedLists ==
    {None, Some(<<>>)}
    \cup {Some(<<Intersection(t, SphereRef(i))>>) : t \in PreparedTimes, i \in 1..3}
    \cup {Some(CrossingList(q, 0)) : q \in {o \in CrossingOrders : Len(o) <= 4}}

PrepareInputs ==
    {FnCall("prepare_computations",
            [w |-> GlassWorld, ray |-> GlassRay, self |-> Intersection(t, SphereRef(i)),
             xs_or_none |-> xs_or_none]) :
        t \in PreparedTimes, i \in 1..3, xs_or_none \in PreparedLists}

-----------------------------------------------------------------------------
(* the for loop of prepare_computations, one iteration at a time           *)

\* the loop before intersection number `visited` + 1 of the list
Walking(visited, containers, n1, n2) ==
    [done |-> FALSE, panicked |-> FALSE,
     value |-> [visited |-> visited, containers |-> containers, n1 |-> n1, n2 |-> n2]]

\* the loop is left, by `break` or at the end of the list
Walked(visited, containers, n1, n2) ==
    Returned([visited |-> visited, containers |-> containers, n1 |-> n1, n2 |-> n2])

\* `let mut n1 = 1.0; let mut n2 = 1.0; .. let mut containers = Vec::new();`
CallWalk ==
    /\ fin.call = "walk"
    /\ fout = NoResult
    /\ fout' = Walking(0, <<>>, ONE, ONE)
    /\ UNCHANGED <<fin, tracer_vars>>

\* one iteration of `for intersect in xs`, for the intersection `crossing`
WalkIteration(w, self, crossing, st) ==
    IF crossing.t = self.t
    THEN Walked(st.visited + 1, toggle(st.containers, crossing.object),
                last_index(w, st.containers),
                last_index(w, toggle(st.containers, crossing.object)))
    ELSE Walking(st.visited + 1, toggle(st.containers, crossing.object), st.n1, st.n2)

WalkStep ==
    /\ fin.call = "walk"
    /\ ~fout.done
    /\ fout # NoResult
    /\ fout.value.visited < Len(fin.with.xs)
    /\ fout' = WalkIteration(fin.with.w, fin.with.self, fin.with.xs[fout.value.visited + 1], fout.value)
    /\ UNCHANGED <<fin, tracer_vars>>

\* the list is used up
WalkReturn ==
    /\ fin.call = "walk"
    /\ ~fout.done
    /\ fout # NoResult
    /\ fout.value.visited = Len(fin.with.xs)
    /\ fout' = Walked(fout.value.visited, fout.value.containers, fout.value.n1, fout.value.n2)
    /\ UNCHANGED <<fin, tracer_vars>>

\* a glass sphere, its clone (same id, transform and material) and a larger
\* sphere of another glass around them
CloneWorld ==
    World(<<glass_sphere(0, identity, ((3 * ONE) \div 2)),
            glass_sphere(0, identity, ((3 * ONE) \div 2)),
            glass_sphere(1, scaling(2 * ONE, 2 * ONE, 2 * ONE), 2 * ONE)>>,
          None, <<>>)

\* longest list that is walked
MaxWalk == 4

\* the intersections of a list are one unit of t apart
WalkList(q) == [j \in 1..Len(q) |-> Intersection(j * ONE, SphereRef(q[j]))]

\* every list of up to MaxWalk intersections with the three spheres of the
\* world; the target is one of them, or (at 0) an intersection at a t of its own
WalkInputs ==
    {FnCall("walk", [w |-> w, xs |-> WalkList(q),
                     self |-> Intersection(target * ONE, SphereRef(1))]) :
        w \in {GlassWorld, CloneWorld},
        q \in UNION {[1..n -> 1..3] : n \in 0..MaxWalk},
        target \in 0..MaxWalk}

\* a ray that touches the unit sphere at (0, 1, 0)
TangentRay == Ray(point(0, ONE, -2 * ONE), vector(0, 0, ONE))

\* the k-th intersection that World::intersect finds, prepared with the
\* list (in a scene of several spheres) or without it
PrepareHit(w, ray, k) ==
    FnCall("prepare_computations",
           [w |-> w, ray |-> ray, self |-> World_intersect(w, ray)[k],
            xs_or_none |-> IF Len(w.objects) > 1 THEN Some(World_intersect(w, ray)) ELSE None])

\* every intersection of the glass scenes with their rays and the tangent ray
PrepareHitInputs ==
    {PrepareHit(GlassScenes[c[1]], c[2], c[3]) :
        c \in {d \in (1..Len(GlassScenes)) \X (GlassRays \cup {TangentRay}) \X (1..4) :
                  d[3] <= Len(World_intersect(GlassScenes[d[1]], d[2]))}}

-----------------------------------------------------------------------------
(* canvas.rs : a canvas that is written to and read from                   *)

\* Canvas::new(width, height)
Canvas_new(width, height) == Canvas(width, height, [i \in 1..(width * height) |-> Color(0, 0, 0)])

\* only the place in the vector is checked
check_xy_panics_by_place(canvas, x, y) == y * canvas.width + x >= Len(canvas.pixels)

\* the assert! of check_xy fails
check_xy_panics(canvas, x, y) == ~(x < canvas.width /\ y < canvas.height)

\* the place check_xy returns, counted from 0
check_xy(canvas, x, y) == y * canvas.width + x

\* `self.pixels[pos] = color`
write_pixel(canvas, x, y, color) ==
    [canvas EXCEPT !.pixels[check_xy(canvas, x, y) + 1] = color]

\* a canvas in use: `last` is the last call made on it, `read` what the last pixel_at returned
InUse(canvas, writes, last, read) ==
    [done |-> FALSE, panicked |-> FALSE,
     value |-> [canvas |-> canvas, writes |-> writes, last |-> last, read |-> read]]

\* a call on the canvas panicked in check_xy; the canvas is as it was
Unwound(canvas, writes, last) ==
    [done |-> TRUE, panicked |-> TRUE,
     value |-> [canvas |-> canvas, writes |-> writes, last |-> last, read |-> None]]

\* a call on the canvas; `color` is the color a write_pixel was given
CanvasCall(op, x, y, color) == [op |-> op, x |-> x, y |-> y, color |-> color]

\* `let mut c = Canvas::new(width, height)`
CallCanvasNew ==
    /\ fin.call = "Canvas::new"
    /\ fout = NoResult
    /\ fout' = InUse(Canvas_new(fin.with.width, fin.with.height), 0, CanvasCall("new", 0, 0, None), None)
    /\ UNCHANGED <<fin, tracer_vars>>

\* most writes to one canvas
MaxWrites == 2

\* c.write_pixel(x, y, color)
WritePixelAt(x, y, color) ==
    /\ fin.call = "Canvas::new"
    /\ ~fout.done
    /\ fout # NoResult
    /\ fout.value.writes < MaxWrites
    /\ fout' = IF check_xy_panics(fout.value.canvas, x, y)
               THEN Unwound(fout.value.canvas, fout.value.writes, CanvasCall("write_pixel", x, y, Some(color)))
               ELSE InUse(write_pixel(fout.value.canvas, x, y, color), fout.value.writes + 1,
                          CanvasCall("write_pixel", x, y, Some(color)), None)
    /\ UNCHANGED <<fin, tracer_vars>>

\* c.pixel_at(x, y)
PixelAtCall(x, y) ==
    /\ fin.call = "Canvas::new"
    /\ ~fout.done
    /\ fout # NoResult
    /\ fout.value.last.op # "pixel_at"
    /\ fout' = IF check_xy_panics(fout.value.canvas, x, y)
               THEN Unwound(fout.value.canvas, fout.value.writes, CanvasCall("pixel_at", x, y, None))
               ELSE InUse(fout.value.canvas, fout.value.writes, CanvasCall("pixel_at", x, y, None),
                          Some(pixel_at(fout.value.canvas, x, y)))
    /\ UNCHANGED <<fin, tracer_vars>>

\* longest side of a canvas that is written to
MaxSide == 2

\* the colors that are written
Inks == {Color(ONE, 0, 0), Color(ONE \div 2, ONE \div 2, ONE \div 2)}

NewCanvasInputs ==
    {FnCall("Canvas::new", [width |-> width, height |-> height]) :
        width \in 0..MaxSide, height \in 0..MaxSide}

\* the writes made to a canvas: x and y up to one beyond the longest side
WritePixel == \E x \in 0..(MaxSide + 1), y \in 0..(MaxSide + 1), color \in Inks : WritePixelAt(x, y, color)

\* the reads made of a canvas
PixelAt == \E x \in 0..(MaxSide + 1), y \in 0..(MaxSide + 1) : PixelAtCall(x, y)

\* every call that is made, with its arguments
FnInputs == LightingInputs \cup SphereRayInputs \cup PlaneRayInputs \cup InverseInputs \cup NormalizeInputs \cup CrossInputs \cup ReflectInputs \cup ConstructorInputs \cup ArithmeticInputs \cup CanvasInputs \cup SchlickInputs \cup PrepareInputs \cup WalkInputs \cup PrepareHitInputs \cup NewCanvasInputs

InitFns ==
    /\ TracerInit([t \in Threads |-> 0])
    /\ fin \in FnInputs
    /\ fout = NoResult

NextFns ==
    \/ CallLighting
    \/ CallSphereLocalIntersect
    \/ CallPlaneLocalIntersect
    \/ CallInverse
    \/ CallNormalize
    \/ CallCross
    \/ CallReflect
    \/ CallPoint
    \/ CallVector
    \/ CallMakeTuple
    \/ CallAdd
    \/ CallSub
    \/ CallToPpm
    \/ ToPpmValue
    \/ ToPpmRow
    \/ ToPpmReturn
    \/ CallSchlick
    \/ CallPrepare
    \/ CallWalk
    \/ WalkStep
    \/ WalkReturn
    \/ CallCanvasNew
    \/ WritePixel
    \/ PixelAt

SpecFns == InitFns /\ [][NextFns]_vars

-----------------------------------------------------------------------------
(* Properties of the direct calls                                          *)

Discriminant(r) ==
    FMul(FMul(2 * ONE, dot(r.direction, tuple_sub(r.origin, point(0, 0, 0)))),
         FMul(2 * ONE, dot(r.direction, tuple_sub(r.origin, point(0, 0, 0)))))
    - FMul(FMul(4 * ONE, dot(r.direction, r.direction)),
           dot(tuple_sub(r.origin, point(0, 0, 0)), tuple_sub(r.origin, point(0, 0, 0))) - ONE)

\* the squared distance from the origin of the point of r at t
DistanceSquared(r, t) ==
    dot(tuple_sub(position(r, t), point(0, 0, 0)), tuple_sub(position(r, t), point(0, 0, 0)))

\* C13: Sphere::local_intersect returns nothing when the discriminant is
\* negative, and otherwise exactly two intersections in ascending order of t
\* (equal for a tangent ray, negative when the sphere is behind the origin),
\* both of the sphere itself and both on its surface.
C13_SphereRoots ==
    (fin.call = "Sphere::local_intersect" /\ fout.done) =>
        /\ ~fout.panicked
        /\ Discriminant(fin.with.local_ray) < 0 => fout.value = <<>>
        /\ Discriminant(fin.with.local_ray) >= 0 =>
               /\ Len(fout.value) = 2
               /\ fout.value[1].t <= fout.value[2].t
               /\ \A i \in 1..2 :
                      /\ fout.value[i].object = fin.with.self
                      /\ Abs(DistanceSquared(fin.with.local_ray, fout.value[i].t) - ONE) < EPSILON

\* a tangent ray: the same t twice
C13_Witness ==
    /\ fin.call = "Sphere::local_intersect"
    /\ fout.done
    /\ Len(fout.value) = 2
    /\ fout.value[1].t = fout.value[2].t
    /\ fin.with.local_ray.origin.y = ONE

\* the sphere is behind the origin of the ray: two different negative t
C13_WitnessBehind ==
    /\ fin.call = "Sphere::local_intersect"
    /\ fout.done
    /\ Len(fout.value) = 2
    /\ fout.value[1].t < fout.value[2].t
    /\ fout.value[2].t < 0

\* C14 as stated: Plane::local_intersect returns nothing for a ray parallel
\* to the plane (|direction.y| < EPSILON, the coplanar ray included) and
\* otherwise exactly one intersection, at t = -origin.y / direction.y, that
\* refers to the plane, from above as from below.
C14_PlaneRoot ==
    (fin.call = "Plane::local_intersect" /\ fout.done) =>
        IF Abs(fin.with.local_ray.direction.y) < EPSILON
        THEN fout.value = <<>>
        ELSE /\ Len(fout.value) = 1
             /\ fout.value[1].t = FDiv(-fin.with.local_ray.origin.y, fin.with.local_ray.direction.y)
             /\ fout.value[1].object = fin.with.self

\* what the code does: no ray ever intersects a plane
C14_PlaneNeverHit ==
    (fin.call = "Plane::local_intersect" /\ fout.done) => fout.value = <<>>

\* the ray of a_ray_intersecting_a_plane_from_above came back without an intersection
C14_Witness ==
    /\ fin.call = "Plane::local_intersect"
    /\ fout.done
    /\ fin.with.local_ray = Ray(point(0, ONE, 0), vector(0, -ONE, 0))
    /\ fout.value = <<>>

\* C15: inverse of a matrix whose determinant is 0 panics, normalize of a
\* tuple of magnitude 0 panics, and cross and reflect panic when either
\* operand has a w other than 0: none of them returns a value.
C15_FailFast ==
    fout.done =>
        /\ (fin.call = "inverse" /\ determinant(fin.with.m) = 0) => fout.panicked
        /\ (fin.call = "normalize" /\ fin.with.a = make_tuple(0, 0, 0, 0)) => fout.panicked
        /\ (fin.call \in {"cross", "reflect"} /\ (fin.with.a.w # 0 \/ fin.with.b.w # 0)) =>
               fout.panicked

\* cross of a vector with a point panicked
C15_Witness ==
    /\ fin.call = "cross"
    /\ fout.done
    /\ fout.panicked
    /\ fin.with.a.w = 0
    /\ fin.with.b.w = ONE

\* inverse of the matrix with a row of zeros panicked
C15_WitnessInverse ==
    /\ fin.call = "inverse"
    /\ fin.with.m = MatrixSingular
    /\ fout.panicked

\* normalize of the zero vector panicked
C15_WitnessNormalize ==
    /\ fin.call = "normalize"
    /\ fin.with.a = vector(0, 0, 0)
    /\ fout.panicked

\* reflect of a point panicked
C15_WitnessReflect ==
    /\ fin.call = "reflect"
    /\ fin.with.a.w = ONE
    /\ fout.panicked

\* every element of p is within EPSILON of the element of q
Near(p, q) == \A i \in 1..4, j \in 1..4 : Abs(p[i][j] - q[i][j]) < EPSILON

C16_WitnessTransform ==
    /\ fin.call = "inverse"
    /\ fout.done
    /\ ~fout.panicked
    /\ fin.with.m \in Transforms
    /\ fin.with.m # transpose(fin.with.m)
    /\ fout.value # fin.with.m

\* the x, y and z of the sum or difference c of a and b, sign = 1 or -1
Componentwise(c, a, b, sign) ==
    /\ c.x = a.x + sign * b.x
    /\ c.y = a.y + sign * b.y
    /\ c.z = a.z + sign * b.z

\* point - point is a vector, point +- vector a point, vector +- vector a vector
PointVectorAlgebra ==
    /\ fin.call = "sub" =>
           /\ Componentwise(fout.value, fin.with.a, fin.with.b, -1)
           /\ (is_point(fin.with.a) /\ is_point(fin.with.b)) => is_vector(fout.value)
           /\ (is_point(fin.with.a) /\ is_vector(fin.with.b)) => is_point(fout.value)
           /\ (is_vector(fin.with.a) /\ is_vector(fin.with.b)) => is_vector(fout.value)
    /\ fin.call = "add" =>
           /\ Componentwise(fout.value, fin.with.a, fin.with.b, 1)
           /\ (is_point(fin.with.a) /\ is_vector(fin.with.b)) => is_point(fout.value)
           /\ (is_vector(fin.with.a) /\ is_vector(fin.with.b)) => is_vector(fout.value)

\* C17 as stated: every tuple constructor fixes w to exactly 1.0 or 0.0, and
\* the arithmetic combines points and vectors as listed.
C17_EveryConstructorFixesW ==
    fout.done =>
        /\ fin.call \in {"point", "vector", "make_tuple"} => fout.value.w \in {W_POINT, W_VECTOR}
        /\ PointVectorAlgebra

\* C17: point() fixes w to exactly 1.0 and vector() to exactly 0.0, while
\* make_tuple (and Tuple4::new) stores the w it is given; point - point is a
\* vector, point + vector and point - vector are points, vector + vector and
\* vector - vector are vectors.
C17_PointsAndVectors ==
    fout.done =>
        /\ fin.call = "point" => fout.value.w = W_POINT
        /\ fin.call = "vector" => fout.value.w = W_VECTOR
        /\ fin.call = "make_tuple" => fout.value.w = fin.with.w
        /\ fin.call \in {"point", "vector", "make_tuple"} =>
               (fout.value.x = fin.with.x /\ fout.value.y = fin.with.y /\ fout.value.z = fin.with.z)
        /\ PointVectorAlgebra

\* a point was subtracted from a different point
C17_Witness ==
    /\ fin.call = "sub"
    /\ fout.done
    /\ is_point(fin.with.a)
    /\ is_point(fin.with.b)
    /\ fin.with.a # fin.with.b
    /\ is_vector(fout.value)

\* make_tuple built a tuple that is neither a point nor a vector
C17_WitnessTuple ==
    /\ fin.call = "make_tuple"
    /\ fout.done
    /\ ~is_point(fout.value)
    /\ ~is_vector(fout.value)

\* the pieces of the text between the separators, a last piece without one included
SplitAt(text, separator) ==
    LET at == {k \in 1..Len(text) : text[k] = separator}
        nth(i) == CHOOSE k \in at : Cardinality({j \in at : j < k}) = i - 1
    IN  [i \in 1..(Cardinality(at) + 1) |->
            SubSeq(text, IF i = 1 THEN 1 ELSE nth(i - 1) + 1,
                         IF i = Cardinality(at) + 1 THEN Len(text) ELSE nth(i) - 1)]

\* the lines of a text, each without its newline; what follows the last newline is the last element
Lines(text) == SplitAt(text, "\n")

\* the values of a line
Words(line) == IF line = <<>> THEN <<>> ELSE SplitAt(line, " ")

RECURSIVE Flatten(_)
Flatten(seqs) == IF seqs = <<>> THEN <<>> ELSE seqs[1] \o Flatten(SubSeq(seqs, 2, Len(seqs)))

RECURSIVE Decimal(_)
\* the decimal digits of n
Decimal(n) == IF n < 10 THEN <<Numerals[n + 1]>> ELSE Decimal(n \div 10) \o <<Numerals[(n % 10) + 1]>>

\* a channel clamped to [0, 1], scaled to 0..255 and rounded to the nearest integer
Channel(c) ==
    CHOOSE n \in 0..255 :
        LET clamped == IF c < 0 THEN 0 ELSE IF c > ONE THEN ONE ELSE c
        IN  /\ 2 * (clamped * 255 - n * ONE) < ONE
            /\ 2 * (n * ONE - clamped * 255) <= ONE

\* the channels of every pixel in row-major order, as decimal numbers
Channels(canvas) ==
    [k \in 1..(3 * Len(canvas.pixels)) |->
        Decimal(Channel(IF k % 3 = 1 THEN canvas.pixels[((k - 1) \div 3) + 1].red
                        ELSE IF k % 3 = 2 THEN canvas.pixels[((k - 1) \div 3) + 1].green
                        ELSE canvas.pixels[((k - 1) \div 3) + 1].blue))]

\* the number of values on the lines before line i of the pixel data
ValuesBefore(lines, i) == Len(Flatten([j \in 1..(i - 1) |-> Words(lines[j])]))

\* the lines of the pixel data: all but the three header lines and the empty
\* piece after the last newline
PixelLines(text) == SubSeq(Lines(text), 4, Len(Lines(text)) - 1)

\* the values that were written, in the order of the text
Written(text) == Flatten([i \in 1..Len(PixelLines(text)) |-> Words(PixelLines(text)[i])])

\* C18: to_ppm writes the lines P3, "<width> <height>" and 255, then the
\* channels of every row in row-major order, clamped, scaled to 0..255 and
\* rounded, every row starting on a line of its own; no line is longer than
\* 70 characters, no value is split between lines and the text ends with a
\* newline.
C18_Ppm ==
    (fin.call = "to_ppm" /\ fout.done) =>
        /\ ~fout.panicked
        /\ fout.value[Len(fout.value)] = "\n"
        /\ Len(Lines(fout.value)) >= 4
        /\ Lines(fout.value)[1] = <<"P", "3">>
        /\ Lines(fout.value)[2] = Decimal(fin.with.canvas.width) \o <<" ">> \o Decimal(fin.with.canvas.height)
        /\ Lines(fout.value)[3] = <<"2", "5", "5">>
        /\ \A i \in 1..Len(Lines(fout.value)) : Len(Lines(fout.value)[i]) <= 70
        /\ Written(fout.value) = Channels(fin.with.canvas)
        /\ \A y \in 0..(fin.with.canvas.height - 1) :
               \E i \in 1..Len(PixelLines(fout.value)) :
                   ValuesBefore(PixelLines(fout.value), i) = y * 3 * fin.with.canvas.width

\* splitting_long_lines_in_ppm_files: a row of 30 values was split after its
\* 17th value, 67 characters into the line
C18_Witness ==
    /\ fin.call = "to_ppm"
    /\ fout.done
    /\ fin.with.canvas.width = 10
    /\ fin.with.canvas.height = 2
    /\ Len(PixelLines(fout.value)) = 4
    /\ Len(Words(PixelLines(fout.value)[1])) = 17
    /\ Len(PixelLines(fout.value)[1]) = 67

\* constructing_the_ppm_pixel_data: a red of 1.5 was written as 255, a red of
\* -0.5 as 0 and a green of 0.5 as 128
C18_WitnessClamped ==
    /\ fin.call = "to_ppm"
    /\ fout.done
    /\ \E i, j, k \in 1..Len(fin.with.canvas.pixels) :
        /\ fin.with.canvas.pixels[i].red > ONE
        /\ Written(fout.value)[3 * i - 2] = <<"2", "5", "5">>
        /\ fin.with.canvas.pixels[j].red < 0
        /\ Written(fout.value)[3 * j - 2] = <<"0">>
        /\ fin.with.canvas.pixels[k].green = ONE \div 2
        /\ Written(fout.value)[3 * k - 1] = <<"1", "2", "8">>

\* the Computations that schlick was called with
SchlickComps ==
    prepare_computations(fin.with.w, fin.with.xs[fin.with.k], fin.with.ray, Some(fin.with.xs))

\* n1 > n2 and sin2_t = (n1 / n2)^2 * (1 - cos^2) > 1
TotalInternalReflection(comps) ==
    /\ comps.n1 > comps.n2
    /\ sin2_t_of(FDiv(comps.n1, comps.n2), dot(comps.eyev, comps.normalv)) > ONE

\* the eye looks along the normal
Perpendicular(comps) == dot(comps.eyev, comps.normalv) = ONE

\* 0.04 within EPSILON
NearFourPercent(reflectance) == Abs(reflectance - ONE \div 25) < EPSILON

\* C19 as stated: exactly 1.0 under total internal reflection, and about 0.04
\* for a perpendicular view with n1 = n2 = 1.5.
C19_EqualIndices ==
    (fin.call = "schlick" /\ fout.done /\ ~fout.panicked) =>
        /\ TotalInternalReflection(SchlickComps) => fout.value = ONE
        /\ (Perpendicular(SchlickComps) /\ SchlickComps.n1 = ((3 * ONE) \div 2)
                /\ SchlickComps.n2 = ((3 * ONE) \div 2)) => NearFourPercent(fout.value)

\* C19: schlick returns exactly 1.0 under total internal reflection (n1 > n2
\* and sin2_t > 1); for a ray through the centre of a glass sphere in empty
\* space, which meets the surface at a right angle with the indices 1.5 and
\* 1.0 on its two sides, it returns 0.04 within EPSILON.
C19_Schlick ==
    (fin.call = "schlick" /\ fout.done) =>
        /\ ~fout.panicked
        /\ TotalInternalReflection(SchlickComps) => fout.value = ONE
        /\ (fin.with.w = GlassScenes[1] /\ fin.with.ray \in CentreRays) =>
               /\ Perpendicular(SchlickComps)
               /\ {SchlickComps.n1, SchlickComps.n2} = {ONE, ((3 * ONE) \div 2)}
               /\ NearFourPercent(fout.value)

\* the_schlick_approximation_under_total_internal_reflection: the ray from
\* (0, 0, sqrt(2)/2) leaves the glass sphere at 45 degrees
C19_Witness ==
    /\ fin.call = "schlick"
    /\ fout.done
    /\ fin.with.w = GlassScenes[1]
    /\ fin.with.ray = Ray(point(0, 0, HalfSqrt2), vector(0, ONE, 0))
    /\ fin.with.k = 2
    /\ TotalInternalReflection(SchlickComps)
    /\ fout.value = ONE

\* the_schlick_approximation_with_a_perpendicular_viewing_angle: the second
\* intersection of the ray from the centre, n1 = 1.5 and n2 = 1.0
C19_WitnessPerpendicular ==
    /\ fin.call = "schlick"
    /\ fout.done
    /\ fin.with.w = GlassScenes[1]
    /\ fin.with.ray = Ray(point(0, 0, 0), vector(0, ONE, 0))
    /\ fin.with.k = 2
    /\ fin.with.xs[2].t = ONE
    /\ SchlickComps.n1 = ((3 * ONE) \div 2)
    /\ SchlickComps.n2 = ONE
    /\ NearFourPercent(fout.value)

\* a perpendicular view with n1 = n2 = 1.5: the reflectance is 0
C19_WitnessEqualIndices ==
    /\ fin.call = "schlick"
    /\ fout.done
    /\ ~fout.panicked
    /\ Perpendicular(SchlickComps)
    /\ SchlickComps.n1 = ((3 * ONE) \div 2)
    /\ SchlickComps.n2 = ((3 * ONE) \div 2)
    /\ fout.value = 0

-----------------------------------------------------------------------------
(* reflected_color inside the tracer                                       *)

\* C20: for a material with reflective < EPSILON reflected_color hands black
\* to shade_hit at once: no frame of color_at is pushed (no ray is cast), the
\* world is not intersected and the counter of the recursion depth keeps
\* its value.
C20_NotReflectiveIsBlack ==
    [][\A t \in Threads :
          (/\ status[t] = "running"
           /\ Top(t).pc = "reflected_color"
           /\ material(world[t], Top(t).comps[1].object).reflective < EPSILON
           /\ stack'[t] # stack[t])
          => /\ Len(stack'[t]) = Len(stack[t])
             /\ stack'[t][Len(stack'[t])].reflected = COLOR_BLACK
             /\ stack'[t][Len(stack'[t])].pc = "refracted_color"
             /\ SubSeq(stack'[t], 1, Len(stack[t]) - 1) = SubSeq(stack[t], 1, Len(stack[t]) - 1)
             /\ trace'[t].intersected = trace[t].intersected
             /\ trace'[t].bailed = trace[t].bailed
             /\ RECURSION_DEPTH' = RECURSION_DEPTH]_vars

\* reflected_color returned black for a surface whose reflective is above 0
\* and below EPSILON, in a world where a reflected ray would have hit a ball
C20_Witness ==
    \E t \in Threads :
        /\ status[t] = "running"
        /\ Top(t).pc = "refracted_color"
        /\ material(world[t], Top(t).comps[1].object).reflective > 0
        /\ material(world[t], Top(t).comps[1].object).reflective < EPSILON
        /\ Top(t).reflected = COLOR_BLACK
        /\ World_intersect(world[t], reflect_ray(Top(t).comps[1])) # <<>>

\* the_reflected_color_for_a_nonreflective_material: reflective is 0
C20_WitnessZero ==
    \E t \in Threads :
        /\ status[t] = "running"
        /\ Top(t).pc = "refracted_color"
        /\ material(world[t], Top(t).comps[1].object).reflective = 0
        /\ Top(t).reflected = COLOR_BLACK

-----------------------------------------------------------------------------
(* refracted_color inside the tracer                                       *)

\* (n1 / n2)^2 * (1 - cos_i^2) for the eye and the normal of comps
Sin2T(comps) ==
    FMul(FMul(FDiv(comps.n1, comps.n2), FDiv(comps.n1, comps.n2)),
         ONE - FMul(dot(comps.eyev, comps.normalv), dot(comps.eyev, comps.normalv)))

\* the color with which the color_at on top of the stack returns in this step
Returning(t) ==
    IF Top(t).pc = "blend" THEN shade_log'[t][1].color ELSE COLOR_BLACK

\* C21: refracted_color hands black to shade_hit without a color_at frame
\* (no ray, no intersection of the world, counter untouched) when the
\* transparency is 0 and when sin2_t > 1; in the remaining case it calls
\* color_at on a ray starting at under_point, and what that call returns
\* comes back multiplied by the transparency.
C21_RefractedColor ==
    [][\A t \in Threads :
          /\ (/\ status[t] = "running"
              /\ Top(t).pc = "refracted_color"
              /\ stack'[t] # stack[t])
             => IF \/ material(world[t], Top(t).comps[1].object).transparency = 0
                   \/ Sin2T(Top(t).comps[1]) > ONE
                THEN /\ Len(stack'[t]) = Len(stack[t])
                     /\ stack'[t][Len(stack'[t])].refracted = COLOR_BLACK
                     /\ stack'[t][Len(stack'[t])].pc = "blend"
                     /\ trace'[t] = trace[t]
                     /\ RECURSION_DEPTH' = RECURSION_DEPTH
                ELSE /\ Len(stack'[t]) = Len(stack[t]) + 1
                     /\ stack'[t][Len(stack'[t])].pc = "color_at"
                     /\ stack'[t][Len(stack'[t])].caller = "refracted_color"
                     /\ stack'[t][Len(stack'[t])].ray.origin = Top(t).comps[1].under_point
          /\ (/\ status[t] = "running"
              /\ Len(stack[t]) >= 2
              /\ Top(t).caller = "refracted_color"
              /\ Len(stack'[t]) = Len(stack[t]) - 1)
             => /\ stack'[t][Len(stack'[t])].pc = "blend"
                /\ stack'[t][Len(stack'[t])].refracted =
                       color_scale(Returning(t),
                                   material(world[t], stack[t][Len(stack[t]) - 1].comps[1].object).transparency)]_vars

\* total internal reflection: refracted_color returned black for a
\* transparent surface that the ray meets from inside at 45 degrees
C21_Witness ==
    \E t \in Threads :
        /\ status[t] = "running"
        /\ Top(t).pc = "blend"
        /\ material(world[t], Top(t).comps[1].object).transparency > 0
        /\ Top(t).comps[1].n1 > Top(t).comps[1].n2
        /\ Sin2T(Top(t).comps[1]) > ONE
        /\ Top(t).refracted = COLOR_BLACK

\* an opaque surface: refracted_color returned black
C21_WitnessOpaque ==
    \E t \in Threads :
        /\ status[t] = "running"
        /\ Top(t).pc = "blend"
        /\ material(world[t], Top(t).comps[1].object).transparency = 0
        /\ Top(t).refracted = COLOR_BLACK

\* the remaining case: a refracted ray brought back a color that is not
\* black, scaled by a transparency of 0.5
C21_WitnessRefracted ==
    \E t \in Threads :
        /\ status[t] = "running"
        /\ Top(t).pc = "blend"
        /\ material(world[t], Top(t).comps[1].object).transparency = ONE \div 2
        /\ Sin2T(Top(t).comps[1]) <= ONE
        /\ Top(t).refracted # COLOR_BLACK

\* the list is absent or empty, or none of its intersections has the t of self
NothingAtT(self, xs_or_none) ==
    \/ xs_or_none = None
    \/ \A j \in 1..Len(xs_or_none[1]) : xs_or_none[1][j].t # self.t

\* C22: prepare_computations called with None, with an empty list or with a
\* list in which no intersection has the t of the target returns
\* n1 = n2 = 1.0.
C22_DefaultIndices ==
    (fin.call = "prepare_computations" /\ fout.done /\ ~fout.panicked
         /\ NothingAtT(fin.with.self, fin.with.xs_or_none))
        => (fout.value.n1 = ONE /\ fout.value.n2 = ONE)

\* a list of four crossings, none at the t of the target, which is the
\* surface of a glass sphere; the ray is inside two spheres at the end of the list
C22_Witness ==
    /\ fin.call = "prepare_computations"
    /\ fout.done
    /\ ~fout.panicked
    /\ fin.with.xs_or_none # None
    /\ Len(fin.with.xs_or_none[1]) = 4
    /\ fin.with.xs_or_none[1][1].object # fin.with.xs_or_none[1][2].object
    /\ fin.with.xs_or_none[1][3].object = fin.with.xs_or_none[1][1].object
    /\ fin.with.self.t = 7 * ONE
    /\ material(fin.with.w, fin.with.self.object).refractive_index > ONE
    /\ fout.value.n1 = ONE
    /\ fout.value.n2 = ONE

\* no list at all
C22_WitnessNone ==
    /\ fin.call = "prepare_computations"
    /\ fout.done
    /\ ~fout.panicked
    /\ fin.with.xs_or_none = None
    /\ fout.value.n1 = ONE
    /\ fout.value.n2 = ONE

\* the empty list
C22_WitnessEmpty ==
    /\ fin.call = "prepare_computations"
    /\ fout.done
    /\ ~fout.panicked
    /\ fin.with.xs_or_none = Some(<<>>)
    /\ fout.value.n1 = ONE
    /\ fout.value.n2 = ONE

\* for contrast: a list with an intersection at the t of the target gives other indices
C22_WitnessListed ==
    /\ fin.call = "prepare_computations"
    /\ fout.done
    /\ ~fout.panicked
    /\ ~NothingAtT(fin.with.self, fin.with.xs_or_none)
    /\ fout.value.n1 > ONE
    /\ fout.value.n2 > fout.value.n1

\* the intersections of the list that the walk has been through
Visited == SubSeq(fin.with.xs, 1, fout.value.visited)

\* the elements of a sequence
Range(seq) == {seq[i] : i \in 1..Len(seq)}

\* seq without its elements equal to e
Without(seq, e) == SelectSeq(seq, LAMBDA x : x # e)

\* two shape instances of the world that are equal by value
AlikeShapes(w) ==
    {pair \in (1..Len(w.objects)) \X (1..Len(w.objects)) :
        pair[1] # pair[2] /\ w.objects[pair[1]] = w.objects[pair[2]]}

\* C23: the containers of the walk hold shape instances: an intersection
\* with an instance that is in the list removes that entry and no other, an
\* intersection with an instance that is not in the list appends it, also
\* when an instance equal to it by value (same id, transform and material)
\* is in the list; so the list holds exactly the instances met an odd
\* number of times, and two instances that are alike are both in it after
\* one intersection with each.
C23_ReferenceIdentity ==
    /\ [](fin.call = "walk" /\ fout # NoResult
              => Range(fout.value.containers) = Entered(fin.with.xs, fout.value.visited))
    /\ [][(fin.call = "walk" /\ fout # NoResult /\ fout'.value.visited = fout.value.visited + 1)
              => LET object == fin.with.xs[fout'.value.visited].object
                 IN  IF object \in Range(fout.value.containers)
                     THEN fout'.value.containers = Without(fout.value.containers, object)
                     ELSE fout'.value.containers = Append(fout.value.containers, object)]_vars

\* a sphere and its clone were entered one after the other: both are containers
C23_Witness ==
    /\ fin.call = "walk"
    /\ fout # NoResult
    /\ \E pair \in AlikeShapes(fin.with.w) :
           /\ fout.value.visited = 2
           /\ Visited[1].object = SphereRef(pair[1])
           /\ Visited[2].object = SphereRef(pair[2])
           /\ fout.value.containers = <<SphereRef(pair[1]), SphereRef(pair[2])>>

\* with a sphere and its clone in the list, an intersection with the sphere
\* removed the sphere and left the clone
C23_WitnessRemoved ==
    /\ fin.call = "walk"
    /\ fout # NoResult
    /\ \E pair \in AlikeShapes(fin.with.w) :
           /\ fout.value.visited = 3
           /\ Visited[1].object = SphereRef(pair[1])
           /\ Visited[2].object = SphereRef(pair[2])
           /\ Visited[3].object = SphereRef(pair[1])
           /\ fout.value.containers = <<SphereRef(pair[2])>>

\* the normal of the shape at the point of the intersection, as normal_at gives it
ShapeNormal == normal_at(fin.with.w, fin.with.self.object, position(fin.with.ray, fin.with.self.t))

\* C24: in the Computations of prepare_computations inside is true exactly
\* when dot(normal, eyev) < 0 for the normal of the shape at the point, and
\* normalv is then the negated normal, otherwise the normal itself; so
\* dot(normalv, eyev) >= 0, and reflectv, over_point and under_point are
\* computed from that normalv.
C24_InsideFlipsNormal ==
    (fin.call = "prepare_computations" /\ fout.done /\ ~fout.panicked) =>
        /\ fout.value.eyev = tuple_neg(fin.with.ray.direction)
        /\ fout.value.inside = (dot(ShapeNormal, fout.value.eyev) < 0)
        /\ fout.value.normalv = (IF fout.value.inside THEN tuple_neg(ShapeNormal) ELSE ShapeNormal)
        /\ dot(fout.value.normalv, fout.value.eyev) >= 0
        /\ fout.value.reflectv = reflect(fin.with.ray.direction, fout.value.normalv)
        /\ fout.value.over_point = tuple_add(fout.value.point, tuple_mul(fout.value.normalv, EPSILON))
        /\ fout.value.under_point = tuple_sub(fout.value.point, tuple_mul(fout.value.normalv, EPSILON))

\* the_hit_when_an_intersection_occurs_on_the_inside, along y: from the
\* centre of the unit sphere the hit at t = 1 is inside and the normal
\* (0, 1, 0) is inverted
C24_Witness ==
    /\ fin.call = "prepare_computations"
    /\ fout.done
    /\ ~fout.panicked
    /\ fin.with.w = GlassScenes[1]
    /\ fin.with.ray = Ray(point(0, 0, 0), vector(0, ONE, 0))
    /\ fin.with.self.t = ONE
    /\ fout.value.point = point(0, ONE, 0)
    /\ fout.value.eyev = vector(0, -ONE, 0)
    /\ fout.value.inside
    /\ ShapeNormal = vector(0, ONE, 0)
    /\ fout.value.normalv = vector(0, -ONE, 0)

\* a hit from outside at a slant: the normal is kept
C24_WitnessOutside ==
    /\ fin.call = "prepare_computations"
    /\ fout.done
    /\ ~fout.panicked
    /\ ~fout.value.inside
    /\ fout.value.normalv = ShapeNormal
    /\ dot(fout.value.normalv, fout.value.eyev) > 0
    /\ dot(fout.value.normalv, fout.value.eyev) < ONE

\* the tangent ray: the normal is at a right angle to the eye, which is not inside
C24_WitnessTangent ==
    /\ fin.call = "prepare_computations"
    /\ fout.done
    /\ ~fout.panicked
    /\ dot(ShapeNormal, fout.value.eyev) = 0
    /\ ~fout.value.inside

-----------------------------------------------------------------------------
(* Ties of hit and of World::intersect                                     *)

\* the place of the first intersection of xs that has the least t >= 0
FirstLowest(xs) ==
    CHOOSE i \in NonNegative(xs) :
        \A j \in NonNegative(xs) : xs[i].t < xs[j].t \/ (xs[i].t = xs[j].t /\ i <= j)

\* the place of a shape in the order World::intersect goes through them:
\* the spheres as stored, then the planes as stored
StoredAt(w, shape) == IF shape.kind = "sphere" THEN shape.idx ELSE Len(w.objects) + shape.idx

\* C25: among several intersections with the least t >= 0 hit returns the
\* one that comes first in the list it is given; in the list of
\* World::intersect intersections with the same t are in the order in
\* which their shapes are stored, spheres before planes.
C25_FirstOfTheTieWins ==
    /\ (fout.op = "hit" /\ NonNegative(fin.xs[1]) # {})
           => (fout.h # None /\ fout.h[1] = fin.xs[1][FirstLowest(fin.xs[1])])
    /\ fout.op = "intersect"
           => \A i, j \in 1..Len(fout.xs) :
                  (i < j /\ fout.xs[i].t = fout.xs[j].t)
                      => StoredAt(fin.w, fout.xs[i].object) <= StoredAt(fin.w, fout.xs[j].object)

\* two intersections with different shapes share the least t >= 0, the list
\* is not sorted, and hit returned the earlier one
C25_Witness ==
    /\ fout.op = "hit"
    /\ fout.h # None
    /\ ~Sorted(fin.xs[1])
    /\ \E i, j \in NonNegative(fin.xs[1]) :
           /\ i < j
           /\ fin.xs[1][i] = fout.h[1]
           /\ fin.xs[1][j].t = fout.h[1].t
           /\ fin.xs[1][j].object # fout.h[1].object

\* two spheres that share their boundary: World::intersect lists the sphere
\* stored first before the other at each t
C25_WitnessIntersect ==
    /\ fout.op = "intersect"
    /\ Len(fout.xs) = 4
    /\ fout.xs[1].t = fout.xs[2].t
    /\ fout.xs[1].object = SphereRef(1)
    /\ fout.xs[2].object = SphereRef(2)

\* hit on the list World::intersect made for those two spheres returned the
\* intersection with the sphere stored first
C25_WitnessStored ==
    /\ fout.op = "hit"
    /\ fin.w = TwinWorld
    /\ fin.xs[1] = World_intersect(TwinWorld, fin.ray)
    /\ fin.xs[1][2].t = fin.xs[1][1].t
    /\ fout.h = Some(Intersection(fin.xs[1][1].t, SphereRef(1)))

-----------------------------------------------------------------------------
(* C26 *)

\* a canvas is being written to and read from, or a call on it has panicked
OnCanvas == fin.call = "Canvas::new" /\ fout # NoResult

\* the places (x, y) of a canvas
Places(canvas) == (0..(canvas.width - 1)) \X (0..(canvas.height - 1))

\* the pixel the canvas holds for the place (x, y), row after row
Held(canvas, place) == canvas.pixels[place[2] * canvas.width + place[1] + 1]

\* (x, y) lies on the canvas
OnTheCanvas(canvas, x, y) == x < canvas.width /\ y < canvas.height

\* the call that was just made on the canvas
JustCalled(op) == OnCanvas' /\ fout' # fout /\ fout'.value.last.op = op

\* C26: a new canvas is black everywhere; a write_pixel on the canvas changes
\* the pixel (x, y) and no other, and pixel_at(x, y) returns what the canvas
\* holds there; write_pixel and pixel_at with x >= width or y >= height panic
\* and leave the pixels as they were.
C26_WritePixelChangesOnePixel ==
    /\ [](OnCanvas /\ fout.value.writes = 0 =>
            /\ Len(fout.value.canvas.pixels) = fin.with.width * fin.with.height
            /\ \A place \in Places(fout.value.canvas) :
                  Held(fout.value.canvas, place) = Color(0, 0, 0))
    /\ [][JustCalled("write_pixel") =>
            LET before == fout.value.canvas
                after == fout'.value.canvas
                x == fout'.value.last.x
                y == fout'.value.last.y
            IN  IF OnTheCanvas(before, x, y)
                THEN /\ ~fout'.panicked
                     /\ Some(Held(after, <<x, y>>)) = fout'.value.last.color
                     /\ pixel_at(after, x, y) = Held(after, <<x, y>>)
                     /\ \A place \in Places(before) \ {<<x, y>>} :
                           Held(after, place) = Held(before, place)
                     /\ Len(after.pixels) = Len(before.pixels)
                ELSE fout'.panicked /\ after = before]_vars
    /\ [][JustCalled("pixel_at") =>
            LET before == fout.value.canvas
                x == fout'.value.last.x
                y == fout'.value.last.y
            IN  /\ fout'.value.canvas = before
                /\ IF OnTheCanvas(before, x, y)
                   THEN ~fout'.panicked /\ fout'.value.read = Some(Held(before, <<x, y>>))
                   ELSE fout'.panicked]_vars

\* two pixels were written, the second one was read back, and the first one is still there
C26_Witness ==
    /\ OnCanvas
    /\ fout.value.writes = 2
    /\ fout.value.last = CanvasCall("pixel_at", 1, 1, None)
    /\ fout.value.read = Some(Color(ONE, 0, 0))
    /\ Held(fout.value.canvas, <<0, 1>>) = Color(ONE \div 2, ONE \div 2, ONE \div 2)
    /\ Held(fout.value.canvas, <<1, 0>>) = Color(0, 0, 0)

\* a write with x = width and y < height - 1, whose place y * width + x lies in the vector, panicked
C26_WitnessPanic ==
    /\ OnCanvas
    /\ fout.panicked
    /\ fout.value.last.op = "write_pixel"
    /\ fout.value.last.x = fout.value.canvas.width
    /\ fout.value.last.y + 1 < fout.value.canvas.height
    /\ fout.value.writes = 1

\* a pixel_at beyond the last row panicked
C26_WitnessReadPanic ==
    /\ OnCanvas
    /\ fout.panicked
    /\ fout.value.last = CanvasCall("pixel_at", 0, 2, None)
    /\ fout.value.canvas.height = 2
    /\ fout.value.canvas.width = 2

-----------------------------------------------------------------------------
(* C27 *)

\* the counter of the thread t
Counter(t) == RECURSION_DEPTH[DepthCell(t)]

\* C27: the counter of a thread is between 0 and MAX_RECURSION_DEPTH, equals
\* the number of color_at calls active on the thread that passed the depth
\* check, and is never incremented beyond MAX_RECURSION_DEPTH.
C27_CounterIsDepth ==
    /\ [](\A t \in Threads :
             /\ Counter(t) \in 0..MAX_RECURSION_DEPTH
             /\ Counter(t) = Cardinality(Passed(t)))
    /\ [][\A t \in Threads : Counter(t)' <= MAX_RECURSION_DEPTH]_vars

\* the counter stays between 0 and MAX_RECURSION_DEPTH and rises by one at a time
C27_CounterWithinBound ==
    /\ [](\A t \in Threads : Counter(t) \in 0..MAX_RECURSION_DEPTH)
    /\ [][\A t \in Threads :
             Counter(t)' > Counter(t) =>
                 Counter(t)' = Counter(t) + 1 /\ Counter(t) < MAX_RECURSION_DEPTH]_vars

\* inside a top-level call the counter is the value the call found plus the
\* number of active color_at calls that passed the depth check
C27_CounterIsDepthAboveBase ==
    \A t \in Threads :
        status[t] = "running" => Counter(t) = trace[t].base + Cardinality(Passed(t))

\* five nested color_at calls passed the depth check and the counter is 5
C27_Witness ==
    \E t \in Threads :
        /\ status[t] = "running"
        /\ trace[t].base = 0
        /\ Cardinality(Passed(t)) = MAX_RECURSION_DEPTH
        /\ Counter(t) = MAX_RECURSION_DEPTH

\* a call panicked in shade_hit: no color_at is active and the counter is not 0
C27_WitnessPanicked ==
    \E t \in Threads :
        /\ status[t] = "panicked"
        /\ stack[t] = <<>>
        /\ Counter(t) > 0

\* a top-level call found the counter raised by an earlier panic
C27_WitnessRaisedBase ==
    \E t \in Threads :
        /\ status[t] = "running"
        /\ trace[t].base > 0
        /\ Cardinality(Passed(t)) = 1
        /\ Counter(t) = trace[t].base + 1

-----------------------------------------------------------------------------
(* C28 *)

\* no color_at call is active on the thread t
Outside(t) == stack[t] = <<>>

\* every World::new() outside of a color_at gets through its assertion
C28_WorldNewNeverPanics ==
    [][\A t \in Threads : CallWorldNew(t) => status'[t] # "panicked"]_vars

\* C28: whenever no color_at call is active on a thread its counter is 0,
\* after returns and after panics alike, so the assertion of World::new holds
\* for every World::new() made outside of a color_at.
C28_ZeroOutsideColorAt ==
    /\ [](\A t \in Threads : Outside(t) => Counter(t) = 0 /\ ~World_new_panics(Counter(t)))
    /\ C28_WorldNewNeverPanics

\* as long as every call has returned, the counter is 0 outside of color_at
C28_ZeroAfterReturns ==
    \A t \in Threads :
        (Outside(t) /\ status[t] # "panicked" /\ trace[t].base = 0) => Counter(t) = 0

\* no color_at is active, the last call panicked in a World without light, and
\* the assertion of World::new would fail
C28_WitnessRaised ==
    \E t \in Threads :
        /\ Outside(t)
        /\ status[t] = "panicked"
        /\ world[t].light = None
        /\ trace[t].intersected >= 1
        /\ World_new_panics(Counter(t))

\* a later call that found the counter raised traced fewer levels of a mirror
\* ball before it met the depth bound
C28_WitnessShallow ==
    \E t \in Threads :
        /\ status[t] = "done"
        /\ trace[t].base > 0
        /\ trace[t].bailed = 1
        /\ trace[t].intersected = MAX_RECURSION_DEPTH - trace[t].base

-----------------------------------------------------------------------------
(* C29 *)

\* how far a frame of color_at has come
Rank(pc) ==
    CASE pc = "color_at" -> 0
      [] pc = "reflected_color" -> 1
      [] pc = "in_reflected_color" -> 2
      [] pc = "refracted_color" -> 3
      [] pc = "in_refracted_color" -> 4
      [] pc = "blend" -> 5

\* the frames that are on the stack of t before and after the step
Kept(t) == 1..(IF Len(stack'[t]) < Len(stack[t]) THEN Len(stack'[t]) ELSE Len(stack[t]))

\* C29: a top-level color_at that finds the counter at 0 executes
\* World::intersect at most 31 times, at counter values 0 to 4, and at most 32
\* further color_at calls return black at the depth bound; a shaded hit calls
\* color_at at most twice, once from reflected_color and once from
\* refracted_color.
C29_BoundedWork ==
    /\ [](\A t \in Threads :
             trace[t].base = 0 => trace[t].intersected <= 31 /\ trace[t].bailed <= 32)
    /\ [][\A t \in Threads :
             /\ trace'[t].intersected > trace[t].intersected => Counter(t) \in 0..4
             /\ trace'[t].bailed > trace[t].bailed => Counter(t) = 5
             /\ (status[t] = "running" /\ status'[t] = "running") =>
                    /\ \A i \in Kept(t) : Rank(stack'[t][i].pc) >= Rank(stack[t][i].pc)
                    /\ Len(stack'[t]) > Len(stack[t]) =>
                           /\ Len(stack'[t]) = Len(stack[t]) + 1
                           /\ Rank(Top(t).pc) \in {1, 3}
                           /\ Rank(stack'[t][Len(stack[t])].pc) = Rank(Top(t).pc) + 1
                           /\ stack'[t][Len(stack'[t])].caller = Top(t).pc]_vars

\* a call in the nest of reflective glass balls that did all of this work
C29_Witness ==
    \E t \in Threads :
        /\ status[t] = "done"
        /\ trace[t].base = 0
        /\ trace[t].intersected = 31
        /\ trace[t].bailed = 32

\* a shaded hit whose reflected and refracted ray were both traced
C29_WitnessTwoCalls ==
    \E t \in Threads :
        /\ status[t] = "running"
        /\ trace[t].base = 0
        /\ Len(stack[t]) = 1
        /\ Top(t).pc = "blend"
        /\ trace[t].intersected = 31

-----------------------------------------------------------------------------
(* C30 *)

\* the walk has begun, is under way or is over
InWalk == fin.call = "walk" /\ fout # NoResult

\* how often the intersections visited so far were with shape
Occurrences(shape) ==
    Cardinality({j \in 1..fout.value.visited : fin.with.xs[j].object = shape})

\* the visited intersection at which shape was met for the last time
LastMet(shape) ==
    CHOOSE j \in 1..fout.value.visited :
        /\ fin.with.xs[j].object = shape
        /\ \A l \in (j + 1)..fout.value.visited : fin.with.xs[l].object # shape

\* C30: at every step of the walk the containers hold no shape instance
\* twice, a shape instance of the world is in the list exactly when an odd
\* number of the intersections visited so far were with it, and the list is
\* in the order in which its shapes were entered.
C30_ContainersAreTheOpenShapes ==
    InWalk =>
        LET containers == fout.value.containers
        IN  /\ \A i, j \in 1..Len(containers) : i # j => containers[i] # containers[j]
            /\ \A k \in 1..Len(fin.with.w.objects) :
                   (\E i \in 1..Len(containers) : containers[i] = SphereRef(k))
                       <=> Occurrences(SphereRef(k)) % 2 = 1
            /\ \A i, j \in 1..Len(containers) :
                   i < j => LastMet(containers[i]) < LastMet(containers[j])

\* three shapes were entered and the first one was left: the other two are
\* still there, in the order in which they were entered
C30_Witness ==
    /\ InWalk
    /\ fout.value.visited = 4
    /\ Len(fout.value.containers) = 2
    /\ Occurrences(fin.with.xs[1].object) = 2
    /\ fin.with.xs[4].object = fin.with.xs[1].object
    /\ fout.value.containers = <<fin.with.xs[2].object, fin.with.xs[3].object>>

\* a shape was left and entered again: it is the last container now
C30_WitnessEnteredAgain ==
    /\ InWalk
    /\ fout.value.visited = 4
    /\ Occurrences(fin.with.xs[1].object) = 3
    /\ fout.value.containers = <<fin.with.xs[2].object, fin.with.xs[1].object>>

=============================================================================
